---- MODULE Spec2Model ----
(***************************************************************************)
(* Model of osssync: the push engine of pull2.py (PushTask: producer,      *)
(* consumer, signal handler, history), the run sequencer of nextseq.py     *)
(* (Sequence.iter_data_files) and the download tool of pull.py.            *)
(*                                                                         *)
(* Spec     the engine: the producer thread, the consumer thread and the   *)
(*          signal handler of the main thread, interleaved statement by    *)
(*          statement, with the instrument creating run directories.       *)
(* SpecSeq  one Sequence.iter_data_files generator driven to its end while *)
(*          the instrument writes the files of one run.                    *)
(* SpecOracle  cycle_count and the completion predicates of nextseq.py and *)
(*          pull.py applied to a run directory.                            *)
(* SpecPull one call of PushTask.pull, transfer by transfer, with failing  *)
(*          transfers.                                                     *)
(* SpecFile PushTask.pull_file called repeatedly on one file.              *)
(* SpecSignal  signal_handle with nested invocations.                      *)
(* SpecRun  producer and consumer with the consumer's transfers tagged by  *)
(*          run; SpecLive is SpecRun under fair scheduling.                *)
(* SpecWait one call of Sequence.wait_cycle, sleep by sleep.              *)
(* SpecDownload  the download tool of pull.py: main and                    *)
(*          download_till_finish.                                          *)
(***************************************************************************)
EXTENDS Integers, Sequences, FiniteSets, TLC

(***************************************************************************)
(* Bounds of the model.                                                    *)
(***************************************************************************)
\* number of run directory names the instrument may create under dest
MaxChips == 2
\* largest lane count a Sequence is constructed with
MaxLane == 2
\* largest cycle count a run descriptor declares
MaxCycle == 26
\* largest number of RTARead*Complete.txt markers of a run
MaxReads == 1

(***************************************************************************)
(* Names found under dest.  Run directories are 1..MaxChips (compared as   *)
(* the strings are, inside the queue's tuples); OtherName is an entry that *)
(* find_new_chip filters out (not a directory, or not of 4 parts).         *)
(***************************************************************************)
Chips == 1..MaxChips
OtherName == MaxChips + 1
Names == Chips \cup {OtherName}
\* the run id of the sentinel item, Python's None
NoChip == 0

VARIABLES
    \* ---- PushTask (pull2.py) ----
    known_chips,     \* History: function from names to 0/1
    queued_chips,    \* the in-flight set
    new_chips,       \* the PriorityQueue, as the sorted sequence of its items
    current_chip,    \* run the consumer works on ("NULL" is NoChip here)
    exit_stat,       \* shutdown flag
    history_exists,  \* whether the history file exists
    history_file,    \* JSON object of the history file: set of <<key, value>>
    \* ---- threads ----
    mpc,             \* main thread: loop() and signal_handle
    ppc,             \* producer thread
    cpc,             \* consumer thread
    valid_chips,     \* find_new_chip: entries of valid_chips not yet visited
    px,              \* find_new_chip: loop variable x
    \* ---- the disk ----
    dest,            \* names present under dest
    \* ---- Sequence.iter_data_files (nextseq.py) ----
    lane_count,      \* Sequence.lane_count
    num_cycles,      \* sum of NumCycles in RunInfo.xml
    num_reads,       \* number of RTARead*Complete.txt the run will have
    disk,            \* files on disk, among those the generator may still read
    gpc,             \* position of the generator
    this_cycle,      \* loop variable cycle / this_cycle
    lane,            \* loop variable lane (and index into the per-lane lists)
    nyield,          \* number of paths yielded so far
    last_yield,      \* the path yielded last
    last_on_disk,    \* whether that path was on disk when it was yielded
    globbed,         \* read-complete markers the final glob returned
    pending,         \* those of them not yet yielded
    \* ---- the completion predicates and cycle_count, on one run directory ----
    o_disk,          \* files of the run directory that exist
    o_reads,         \* NumCycles attribute of each Read element of RunInfo.xml
    o_age,           \* time.time() - st_ctime of RunCompletionStatus.xml
    o_out,           \* the function applied last and what it returned
    \* ---- PushTask.pull on one run, transfer by transfer ----
    force,           \* self.force
    failed_files,    \* self.failed_files
    pull_error,      \* pull_error, the part of it the retry loop has not visited
    count,           \* count: paths of iter_data_files transferred
    q_stage,         \* position in pull(): index into PullOrder
    q_pc,            \* position inside that part of pull()
    q_i,             \* index of the for loop over non_important_paths()
    q_nseq,          \* number of paths iter_data_files yields for this run
    q_disk,          \* which of recipe_dir, config_dir exist
    q_last,          \* the pull_path call made last and how it ended
    q_seen,          \* the parts of pull() that have made a pull_path call
    q_nfail,         \* number of transfers that have failed so far
    q_failed_log,    \* paths whose transfer failed outside the retry loop
    q_forced_log,    \* paths the retry loop has transferred
    \* ---- PushTask.pull_file called again and again on one file ----
    f_local,         \* path.stat().st_size
    f_remote,        \* content_length of the remote object, Absent without one
    f_calls,         \* number of pull_file calls made
    f_writes,        \* number of resumable_upload calls made
    f_last,          \* force argument and result of the last call
    f_changed,       \* whether the local file was written since the last call
    \* ---- signal_handle, one invocation nested in another ----
    h_stack,         \* positions of the invocations of signal_handle in progress
    \* ---- the consumer's transfers, run by run ----
    x_chip,          \* run directory the last transfer read from
    \* ---- Sequence.wait_cycle, one call ----
    w_sleeps,        \* number of time.sleep(interval) calls that have returned
    w_seen           \* what the exists() calls found when the while loop ended

engineVars == <<known_chips, queued_chips, new_chips, current_chip, exit_stat,
                history_exists, history_file, mpc, ppc, cpc, valid_chips, px,
                dest>>
seqVars == <<lane_count, num_cycles, num_reads, disk, gpc, this_cycle, lane,
             nyield, last_yield, last_on_disk, globbed, pending>>
oracleVars == <<o_disk, o_reads, o_age, o_out>>
pullVars == <<force, failed_files, pull_error, count, q_stage, q_pc, q_i, q_nseq,
              q_disk, q_last, q_seen, q_nfail, q_failed_log, q_forced_log>>
fileVars == <<f_local, f_remote, f_calls, f_writes, f_last, f_changed>>
sigVars == <<h_stack>>
runVars == <<x_chip>>
waitVars == <<w_sleeps, w_seen>>
restVars == <<oracleVars, pullVars, fileVars, sigVars, runVars, waitVars>>
vars == <<engineVars, seqVars, restVars>>

(***************************************************************************)
(* The history file: json.dump / json.load of a dict of str -> int.        *)
(***************************************************************************)
\* json.dump(self.known_chips, f): one member "key": value per dict entry
DumpFlagged(m) == {<<k, m[k]>> : k \in {d \in DOMAIN m : m[d] = 1}}
Dump(m) == {<<k, m[k]>> : k \in DOMAIN m}

\* json.load(f): the dict of the object's members
Load(f) == [k \in {p[1] : p \in f} |-> (CHOOSE p \in f : p[1] = k)[2]]

\* every dict a history file may hold: names mapped to 0 or 1
Histories == UNION {[S -> {0, 1}] : S \in SUBSET Names}

(***************************************************************************)
(* The PriorityQueue new_chips.  Items are tuples (priority, run id) and   *)
(* Python compares them lexicographically; the queue hands out the         *)
(* smallest.  It is kept as the sorted sequence of its items.              *)
(***************************************************************************)
ChipPriority == 10
SentinelPriority == -1

\* self.new_chips.put((10, x))
ChipItem(x) == <<ChipPriority, x>>

\* self.new_chips.put((-1, None))
SentinelItemLate == <<ChipPriority + 1, NoChip>>
SentinelItem == <<SentinelPriority, NoChip>>

\* tuple comparison a < b
ItemLess(a, b) == a[1] < b[1] \/ (a[1] = b[1] /\ a[2] < b[2])

\* PriorityQueue.put
PQPut(q, item) ==
    LET k == Cardinality({i \in 1..Len(q) : ~ItemLess(item, q[i])})
    IN  SubSeq(q, 1, k) \o <<item>> \o SubSeq(q, k + 1, Len(q))

\* PriorityQueue.get: the smallest item, and the queue without it
PQFirst(q) == Head(q)
PQRest(q) == Tail(q)

\* number of occurrences of run x in the queue
InQueue(q, x) == Cardinality({i \in 1..Len(q) : q[i][2] = x})

(***************************************************************************)
(* find_new_chip's filters.                                                *)
(***************************************************************************)
\* (self.dest / x).is_dir() and len(x.split('_')) == 4
IsValidChip(x) == x \in Chips

NotKnownOrFlagZero(x, known) == x \notin DOMAIN known \/ known[x] = 0

\* x not in self.known_chips
NotKnown(x, known) == x \notin DOMAIN known

\* x not in self.queued_chips
NotQueued(x, queued) == x \notin queued

\* self.known_chips[self.current_chip] = 1
MarkDone(known, chip) ==
    [k \in DOMAIN known \cup {chip} |-> IF k = chip THEN 1 ELSE known[k]]

----
(***************************************************************************)
(* Initial state: the process has been constructed, loop() has not yet     *)
(* loaded the history.  The history file is absent or holds what an        *)
(* earlier process wrote.                                                  *)
(***************************************************************************)
SeqIdle ==
    /\ lane_count = 1
    /\ num_cycles = 1
    /\ num_reads = 0
    /\ disk = {}
    /\ gpc = "idle"
    /\ this_cycle = 0
    /\ lane = 0
    /\ nyield = 0
    /\ last_yield = [kind |-> "none", cycle |-> 0, lane |-> 0]
    /\ last_on_disk = FALSE
    /\ globbed = {}
    /\ pending = {}

OracleIdle ==
    /\ o_disk = {}
    /\ o_reads = <<>>
    /\ o_age = 0
    /\ o_out = [fn |-> "none", val |-> FALSE]

PullIdle ==
    /\ force = FALSE
    /\ failed_files = <<>>
    /\ pull_error = <<>>
    /\ count = 0
    /\ q_stage = 1
    /\ q_pc = "idle"
    /\ q_i = 1
    /\ q_nseq = 0
    /\ q_disk = {}
    /\ q_last = [phase |-> "none", path |-> [kind |-> "none", cycle |-> 0, lane |-> 0],
                 forced |-> "None", result |-> "none"]
    /\ q_seen = {}
    /\ q_nfail = 0
    /\ q_failed_log = <<>>
    /\ q_forced_log = <<>>

FileIdle ==
    /\ f_local = 1
    /\ f_remote = 0
    /\ f_calls = 0
    /\ f_writes = 0
    /\ f_last = [forced |-> "None", result |-> "none"]
    /\ f_changed = FALSE

SigIdle == h_stack = <<>>

RunIdle == x_chip = NoChip

\* no wait_cycle call has been made
NotSeen == [sleeps |-> 0, next |-> FALSE, ended |-> FALSE]
WaitIdle == w_sleeps = 0 /\ w_seen = NotSeen

\* the parts neither the engine nor the generator touches
RestIdle ==
    /\ OracleIdle
    /\ PullIdle
    /\ FileIdle
    /\ SigIdle
    /\ RunIdle
    /\ WaitIdle

Init ==
    /\ known_chips = <<>>
    /\ queued_chips = {}
    /\ new_chips = <<>>
    /\ current_chip = NoChip
    /\ exit_stat = FALSE
    /\ history_exists \in BOOLEAN
    /\ history_file \in IF history_exists THEN {Dump(m) : m \in Histories} ELSE {{}}
    /\ mpc = "load"
    /\ ppc = "idle"
    /\ cpc = "idle"
    /\ valid_chips = {}
    /\ px = NoChip
    /\ dest = {}
    /\ SeqIdle
    /\ RestIdle

\* the process is running: loop() has started the threads and has not exited
Alive == mpc \in {"join", "sig_flag", "sig_put"}

(***************************************************************************)
(* The instrument.                                                         *)
(***************************************************************************)
\* a new entry appears under dest
NewName(x) ==
    /\ x \in Names \ dest
    /\ dest' = dest \cup {x}
    /\ UNCHANGED <<known_chips, queued_chips, new_chips, current_chip, exit_stat,
                   history_exists, history_file, mpc, ppc, cpc, valid_chips, px>>
    /\ UNCHANGED <<seqVars, restVars>>

(***************************************************************************)
(* Main thread: loop().                                                    *)
(***************************************************************************)
\* load_history, then the two threads are started
LoadHistory ==
    /\ mpc = "load"
    /\ IF ~history_exists
       THEN /\ known_chips' = [x \in dest |-> 0]
            /\ history_file' = Dump(known_chips')
            /\ history_exists' = TRUE
       ELSE /\ known_chips' = Load(history_file)
            /\ UNCHANGED <<history_file, history_exists>>
    /\ mpc' = "join"
    /\ ppc' = "while"
    /\ cpc' = "get"
    /\ UNCHANGED <<queued_chips, new_chips, current_chip, exit_stat, valid_chips,
                   px, dest>>
    /\ UNCHANGED <<seqVars, restVars>>

\* t2.join(); t1.join(); raise SystemExit('Exit loop')
ExitLoop ==
    /\ mpc = "join"
    /\ cpc \in {"done", "crashed"}
    /\ ppc = "done"
    /\ mpc' = "exited"
    /\ UNCHANGED <<known_chips, queued_chips, new_chips, current_chip, exit_stat,
                   history_exists, history_file, ppc, cpc, valid_chips, px, dest>>
    /\ UNCHANGED <<seqVars, restVars>>

(***************************************************************************)
(* signal_handle, run by the main thread when SIGINT or SIGTERM arrives.   *)
(***************************************************************************)
\* if self.exit_stat: raise SystemExit  (the daemon threads die with it)
SignalReceived ==
    /\ mpc = "join"
    /\ mpc' = IF exit_stat THEN "exited" ELSE "sig_flag"
    /\ UNCHANGED <<known_chips, queued_chips, new_chips, current_chip, exit_stat,
                   history_exists, history_file, ppc, cpc, valid_chips, px, dest>>
    /\ UNCHANGED <<seqVars, restVars>>

\* self.exit_stat = True
SignalSetFlag ==
    /\ mpc = "sig_flag"
    /\ exit_stat' = TRUE
    /\ mpc' = "sig_put"
    /\ UNCHANGED <<known_chips, queued_chips, new_chips, current_chip,
                   history_exists, history_file, ppc, cpc, valid_chips, px, dest>>
    /\ UNCHANGED <<seqVars, restVars>>

\* self.new_chips.put((-1, None))
SignalPutSentinel ==
    /\ mpc = "sig_put"
    /\ new_chips' = PQPut(new_chips, SentinelItem)
    /\ mpc' = "join"
    /\ UNCHANGED <<known_chips, queued_chips, current_chip, exit_stat,
                   history_exists, history_file, ppc, cpc, valid_chips, px, dest>>
    /\ UNCHANGED <<seqVars, restVars>>

(***************************************************************************)
(* Producer thread: producer() and find_new_chip(), one statement a step.  *)
(***************************************************************************)
\* while not self.exit_stat: ... chips = os.listdir(self.dest);
\* valid_chips = [x for x in chips if ...]
ProducerWhile ==
    /\ Alive
    /\ ppc = "while"
    /\ IF exit_stat
       THEN /\ ppc' = "done"
            /\ UNCHANGED valid_chips
       ELSE /\ ppc' = "for"
            /\ valid_chips' = {x \in dest : IsValidChip(x)}
    /\ UNCHANGED <<known_chips, queued_chips, new_chips, current_chip, exit_stat,
                   history_exists, history_file, mpc, cpc, px, dest>>
    /\ UNCHANGED <<seqVars, restVars>>

\* for x in valid_chips: if x not in self.known_chips and ...
\* (os.listdir gives the names in no particular order)
FindNewChipCheckKnown ==
    /\ Alive
    /\ ppc = "for"
    /\ \E x \in valid_chips :
         /\ valid_chips' = valid_chips \ {x}
         /\ IF NotKnown(x, known_chips)
            THEN /\ px' = x
                 /\ ppc' = "check_queued"
            ELSE UNCHANGED <<px, ppc>>
    /\ UNCHANGED <<known_chips, queued_chips, new_chips, current_chip, exit_stat,
                   history_exists, history_file, mpc, cpc, dest>>
    /\ UNCHANGED <<seqVars, restVars>>

\* ... and x not in self.queued_chips:
FindNewChipCheckQueued ==
    /\ Alive
    /\ ppc = "check_queued"
    /\ IF NotQueued(px, queued_chips)
       THEN /\ ppc' = "put"
            /\ UNCHANGED px
       ELSE /\ ppc' = "for"
            /\ px' = NoChip
    /\ UNCHANGED <<known_chips, queued_chips, new_chips, current_chip, exit_stat,
                   history_exists, history_file, mpc, cpc, valid_chips, dest>>
    /\ UNCHANGED <<seqVars, restVars>>

\* self.new_chips.put((10, x))
FindNewChipPut ==
    /\ Alive
    /\ ppc = "put"
    /\ new_chips' = PQPut(new_chips, ChipItem(px))
    /\ ppc' = "add"
    /\ UNCHANGED <<known_chips, queued_chips, current_chip, exit_stat,
                   history_exists, history_file, mpc, cpc, valid_chips, px, dest>>
    /\ UNCHANGED <<seqVars, restVars>>

\* self.queued_chips.add(x)  (x is not read again before the loop rebinds it)
FindNewChipAdd ==
    /\ Alive
    /\ ppc = "add"
    /\ queued_chips' = queued_chips \cup {px}
    /\ ppc' = "for"
    /\ px' = NoChip
    /\ UNCHANGED <<known_chips, new_chips, current_chip, exit_stat,
                   history_exists, history_file, mpc, cpc, valid_chips, dest>>
    /\ UNCHANGED <<seqVars, restVars>>

\* the loop is over: for x in range(300): time.sleep(1);
\* if self.exit_stat: break
ProducerSleep ==
    /\ Alive
    /\ ppc = "for"
    /\ valid_chips = {}
    /\ ppc' = "while"
    /\ UNCHANGED <<known_chips, queued_chips, new_chips, current_chip, exit_stat,
                   history_exists, history_file, mpc, cpc, valid_chips, px, dest>>
    /\ UNCHANGED <<seqVars, restVars>>

(***************************************************************************)
(* Consumer thread: consumer() and pull().                                 *)
(***************************************************************************)
\* _, chip = self.new_chips.get(); if chip is None: break;
\* self.current_chip = chip
ConsumerGet ==
    /\ Alive
    /\ cpc = "get"
    /\ new_chips # <<>>
    /\ new_chips' = PQRest(new_chips)
    /\ IF PQFirst(new_chips)[2] = NoChip
       THEN /\ cpc' = "done"
            /\ UNCHANGED current_chip
       ELSE /\ cpc' = "pull"
            /\ current_chip' = PQFirst(new_chips)[2]
    /\ UNCHANGED <<known_chips, queued_chips, exit_stat, history_exists,
                   history_file, mpc, ppc, valid_chips, px, dest>>
    /\ UNCHANGED <<seqVars, restVars>>

\* pull(): if is_file_complete() and is_run_complete() and is_rta_complete()
\* (complete: what the three predicates find on disk at this moment)
PullStart ==
    /\ Alive
    /\ cpc = "pull"
    /\ \E complete \in BOOLEAN :
         cpc' = IF complete THEN "pull_all" ELSE "incremental"
    /\ UNCHANGED <<known_chips, queued_chips, new_chips, current_chip, exit_stat,
                   history_exists, history_file, mpc, ppc, valid_chips, px, dest>>
    /\ UNCHANGED <<seqVars, restVars>>

\* self.pull_path(self.chip_dir); return
PullAll ==
    /\ Alive
    /\ cpc = "pull_all"
    /\ cpc' = "get"
    /\ UNCHANGED <<known_chips, queued_chips, new_chips, current_chip, exit_stat,
                   history_exists, history_file, mpc, ppc, valid_chips, px, dest>>
    /\ UNCHANGED <<seqVars, restVars>>

\* the incremental pass, up to pull_path(run_completion_status_xml); it
\* takes this step once the files its waits poll for have appeared
PullIncremental ==
    /\ Alive
    /\ cpc = "incremental"
    /\ cpc' = "mark"
    /\ UNCHANGED <<known_chips, queued_chips, new_chips, current_chip, exit_stat,
                   history_exists, history_file, mpc, ppc, valid_chips, px, dest>>
    /\ UNCHANGED <<seqVars, restVars>>

\* self.known_chips[self.current_chip] = 1
PullMark ==
    /\ Alive
    /\ cpc = "mark"
    /\ known_chips' = MarkDone(known_chips, current_chip)
    /\ cpc' = "remove"
    /\ UNCHANGED <<queued_chips, new_chips, current_chip, exit_stat,
                   history_exists, history_file, mpc, ppc, valid_chips, px, dest>>
    /\ UNCHANGED <<seqVars, restVars>>

\* self.queued_chips.remove(self.current_chip): KeyError when it is not in
\* the set, which ends the consumer thread
PullRemove ==
    /\ Alive
    /\ cpc = "remove"
    /\ IF current_chip \in queued_chips
       THEN /\ queued_chips' = queued_chips \ {current_chip}
            /\ cpc' = "dump"
       ELSE /\ cpc' = "crashed"
            /\ UNCHANGED queued_chips
    /\ UNCHANGED <<known_chips, new_chips, current_chip, exit_stat,
                   history_exists, history_file, mpc, ppc, valid_chips, px, dest>>
    /\ UNCHANGED <<seqVars, restVars>>

\* with open(self.history_file, 'w') as f: json.dump(self.known_chips, f)
PullDump ==
    /\ Alive
    /\ cpc = "dump"
    /\ history_file' = Dump(known_chips)
    /\ history_exists' = TRUE
    /\ cpc' = "get"
    /\ UNCHANGED <<known_chips, queued_chips, new_chips, current_chip, exit_stat,
                   mpc, ppc, valid_chips, px, dest>>
    /\ UNCHANGED <<seqVars, restVars>>

----
Next ==
    \/ \E x \in Names : NewName(x)
    \/ LoadHistory
    \/ ExitLoop
    \/ SignalReceived
    \/ SignalSetFlag
    \/ SignalPutSentinel
    \/ ProducerWhile
    \/ FindNewChipCheckKnown
    \/ FindNewChipCheckQueued
    \/ FindNewChipPut
    \/ FindNewChipAdd
    \/ ProducerSleep
    \/ ConsumerGet
    \/ PullStart
    \/ PullAll
    \/ PullIncremental
    \/ PullMark
    \/ PullRemove
    \/ PullDump

Spec == Init /\ [][Next]_vars

----
(***************************************************************************)
(* Properties of the engine (checked under Spec).                          *)
(***************************************************************************)
\* the consumer is between dequeuing run x and the return of pull()
InProgress(x) ==
    /\ current_chip = x
    /\ cpc \in {"pull", "pull_all", "incremental", "mark", "remove", "dump"}

\* this step is the return of pull()
PullReturns == cpc \in {"pull_all", "dump"} /\ cpc' = "get"

\* run x is recorded as complete in History
Done(known, x) == x \in DOMAIN known /\ known[x] = 1

\* C1: once a run is marked complete in History (known_chips[run] = 1), no
\* later step puts that run id on the work queue again.
C1_DoneNeverReenqueued ==
    [][\A x \in Chips :
         Done(known_chips, x) => InQueue(new_chips', x) <= InQueue(new_chips, x)]_vars

\* C2: a run id is never both waiting in the work queue and being processed
\* by the consumer (dequeued, pull() not yet returned), it occurs at most
\* once in the work queue, and the producer is never about to enqueue a run
\* id that is in queued_chips.
C2_AtMostOnceInFlight ==
    /\ \A x \in Chips :
         /\ InQueue(new_chips, x) <= 1
         /\ ~(InQueue(new_chips, x) >= 1 /\ InProgress(x))
    /\ ppc = "put" => px \notin queued_chips

\* C3: once exit_stat is set the consumer never begins processing another
\* run, and a run that pull() finishes after the stop signal is recorded in
\* History.
C3_GracefulStop ==
    [][/\ (exit_stat /\ cpc = "get") => cpc' # "pull"
       /\ (exit_stat /\ PullReturns) => Done(known_chips', current_chip)]_vars

\* C4: the consumer loop is left only by dequeuing the sentinel, and while
\* the sentinel is in the queue the consumer's next dequeue returns it,
\* whatever runs are queued.
C4_SentinelFirst ==
    [][/\ (cpc # "done" /\ cpc' = "done") =>
            /\ cpc = "get"
            /\ new_chips = <<SentinelItem>> \o new_chips'
       /\ (cpc = "get" /\ cpc' # "get" /\ InQueue(new_chips, NoChip) >= 1) =>
            cpc' = "done"]_vars

\* C4 witness: the consumer is about to dequeue while the queue holds the
\* sentinel together with a discovered run.
C4_Witness ==
    /\ Alive
    /\ cpc = "get"
    /\ InQueue(new_chips, NoChip) = 1
    /\ \E x \in Chips : InQueue(new_chips, x) = 1

\* C5: whenever pull() returns, the run is recorded in History with flag 1
\* and has been removed from queued_chips.
C5_RecordedOnReturn ==
    [][PullReturns =>
         /\ Done(known_chips', current_chip)
         /\ current_chip \notin queued_chips']_vars

\* C6: whenever the consumer is at its dequeue, the history file exists and
\* its content is the in-memory History map.
C6_HistoryPersisted ==
    cpc = "get" => /\ history_exists
                   /\ history_file = Dump(known_chips)
                   /\ Load(history_file) = known_chips

\* C6 witness: the consumer is back at its dequeue after marking a run
\* complete, and the file holds that mark.
C6_Witness ==
    /\ cpc = "get"
    /\ current_chip # NoChip
    /\ Done(known_chips, current_chip)
    /\ <<current_chip, 1>> \in history_file

----
(***************************************************************************)
(* The run sequencer: Sequence.iter_data_files of nextseq.py.              *)
(*                                                                         *)
(* A path is a record [kind, cycle, lane] (0 where a part does not apply). *)
(***************************************************************************)
File(k) == [kind |-> k, cycle |-> 0, lane |-> 0]
LaneFile(k, l) == [kind |-> k, cycle |-> 0, lane |-> l]

\* self.run_info_xml, self.run_parammeters_xml, self.rta_configuration_xml,
\* self.rta_complete_txt
RunInfo == File("run_info")
RunParams == File("run_params")
RtaConfig == File("rta_config")
RtaCompleteTxt == File("rta_complete")

\* cycle_bcl_files(cycle, lane), cycle_bcl_index_files(cycle, lane)
Bcl(c, l) == [kind |-> "bcl", cycle |-> c, lane |-> l]
Bci(c, l) == [kind |-> "bci", cycle |-> c, lane |-> l]

\* lane_bci_files, location_files, filter_files: one path per lane
LaneBci(l) == LaneFile("lane_bci", l)
Locs(l) == LaneFile("locs", l)
Filter(l) == LaneFile("filter", l)

\* the RTARead<i>Complete.txt markers that seq_dir.glob matches
ReadComplete(i) == LaneFile("read_complete", i)

\* range(1, 6): the cycles of the first loop
FirstCycles == 5
\* if this_cycle == 25
FilterCycleEarly == 25 - 1
FilterCycle == 25
\* cycle_count without a run descriptor
NoDescriptor == 9999

\* Path(file).exists()
FileExistsUnchecked(f, files) == TRUE
FileExists(f, files) == f \in files

\* cycle_count: the sum of NumCycles, or 9999 without RunInfo.xml
CycleCount(files, cycles) ==
    IF FileExists(RunInfo, files) THEN cycles ELSE NoDescriptor

\* the four paths yielded after wait_file(self.rta_complete_txt)
FinalPathsWithStatus ==
    <<RtaConfig, RunInfo, RunParams, RtaCompleteTxt, File("run_completion_status")>>
FinalPaths == <<RtaConfig, RunInfo, RunParams, RtaCompleteTxt>>

(***************************************************************************)
(* The instrument's side of one run directory.  Declared are the files a   *)
(* run of num_cycles cycles, lane_count lanes and num_reads reads has.     *)
(* disk holds the on-disk state of the paths the generator may still read: *)
(* a path is forgotten when it is yielded for the last time, and a file    *)
(* comes into view (NearBy) when the generator gets to the part of the run *)
(* it belongs to; whether it has appeared by the time the generator looks  *)
(* at it is left open, so each file may be early or late.                  *)
(***************************************************************************)
Lanes == 1..lane_count

Declared(f) ==
    CASE f.kind \in {"run_info", "run_params", "rta_config", "rta_complete"} -> TRUE
      [] f.kind \in {"lane_bci", "locs", "filter"} -> f.lane \in Lanes
      [] f.kind \in {"bcl", "bci"} -> f.cycle \in 1..num_cycles /\ f.lane \in Lanes
      [] f.kind = "read_complete" -> f.lane \in 1..num_reads
      [] OTHER -> FALSE

\* the lanes whose files of the current group are still to be yielded
LanesLeft == {l \in Lanes : l >= lane}

NearBy ==
    CASE gpc \in {"wait_run_info", "yield_run_info", "wait_run_params",
                  "yield_run_params"} ->
           {RunInfo, RunParams}
      [] gpc \in {"wait_lane_bci", "yield_lane_bci"} ->
           {LaneBci(l) : l \in LanesLeft}
      [] gpc \in {"wait_cycle_first", "wait_cycle"} ->
           {Bcl(this_cycle, l) : l \in Lanes} \cup {Bci(this_cycle, l) : l \in Lanes}
           \cup {Bcl(this_cycle + 1, 1)}
      [] gpc \in {"yield_bcl_first", "yield_bcl"} ->
           {Bcl(this_cycle, l) : l \in LanesLeft}
           \cup {Bci(this_cycle, l) : l \in LanesLeft}
           \cup {Bcl(this_cycle + 1, 1)}
      [] gpc \in {"yield_bci_first", "yield_bci"} ->
           {Bcl(this_cycle, l) : l \in LanesLeft \ {lane}}
           \cup {Bci(this_cycle, l) : l \in LanesLeft}
           \cup {Bcl(this_cycle + 1, 1)}
      [] gpc = "wait_cycle6" ->
           {Bcl(FirstCycles + 1, 1)} \cup {Locs(l) : l \in Lanes}
      [] gpc = "yield_locs" ->
           {Locs(l) : l \in LanesLeft}
      [] gpc = "while" ->
           {Bcl(this_cycle, 1)}
      [] gpc \in {"wait_filter", "yield_filter"} ->
           {Filter(l) : l \in LanesLeft} \cup {Bcl(this_cycle + 1, 1)}
      [] gpc \in {"wait_rta", "yield_final", "glob"} ->
           {RtaCompleteTxt, RtaConfig} \cup {ReadComplete(i) : i \in 1..num_reads}
      [] OTHER -> {}

\* the instrument writes file f
Appear(f) ==
    /\ f \in NearBy \ disk
    /\ Declared(f)
    /\ disk' = disk \cup {f}
    /\ UNCHANGED <<lane_count, num_cycles, num_reads, gpc, this_cycle, lane,
                   nyield, last_yield, last_on_disk, globbed, pending>>
    /\ UNCHANGED <<engineVars, restVars>>

\* yield f: the path goes to the caller; keep says whether the generator
\* reads the path again later
Yield(f, keep) ==
    /\ nyield' = nyield + 1
    /\ last_yield' = f
    /\ last_on_disk' = (f \in disk)
    /\ disk' = IF keep THEN disk ELSE disk \ {f}


(***************************************************************************)
(* iter_data_files, one step per wait that returns and per yield.          *)
(***************************************************************************)
\* self.wait_file(self.run_info_xml)
WaitRunInfo ==
    /\ gpc = "wait_run_info"
    /\ FileExists(RunInfo, disk)
    /\ gpc' = "yield_run_info"
    /\ UNCHANGED <<lane_count, num_cycles, num_reads, disk, this_cycle, lane,
                   nyield, last_yield, last_on_disk, globbed, pending>>
    /\ UNCHANGED <<engineVars, restVars>>

\* yield self.run_info_xml
YieldRunInfo ==
    /\ gpc = "yield_run_info"
    /\ Yield(RunInfo, TRUE)
    /\ gpc' = "wait_run_params"
    /\ UNCHANGED <<lane_count, num_cycles, num_reads, this_cycle, lane, globbed,
                   pending>>
    /\ UNCHANGED <<engineVars, restVars>>

\* self.wait_file(self.run_parammeters_xml)
WaitRunParams ==
    /\ gpc = "wait_run_params"
    /\ FileExists(RunParams, disk)
    /\ gpc' = "yield_run_params"
    /\ UNCHANGED <<lane_count, num_cycles, num_reads, disk, this_cycle, lane,
                   nyield, last_yield, last_on_disk, globbed, pending>>
    /\ UNCHANGED <<engineVars, restVars>>

\* yield self.run_parammeters_xml; then for file in self.lane_bci_files:
YieldRunParams ==
    /\ gpc = "yield_run_params"
    /\ Yield(RunParams, TRUE)
    /\ gpc' = "wait_lane_bci"
    /\ lane' = 1
    /\ UNCHANGED <<lane_count, num_cycles, num_reads, this_cycle, globbed, pending>>
    /\ UNCHANGED <<engineVars, restVars>>

\* self.wait_file(file)  (lane level bci file)
WaitLaneBci ==
    /\ gpc = "wait_lane_bci"
    /\ FileExists(LaneBci(lane), disk)
    /\ gpc' = "yield_lane_bci"
    /\ UNCHANGED <<lane_count, num_cycles, num_reads, disk, this_cycle, lane,
                   nyield, last_yield, last_on_disk, globbed, pending>>
    /\ UNCHANGED <<engineVars, restVars>>

\* yield file; after the last lane: for cycle in range(1, 6):
YieldLaneBci ==
    /\ gpc = "yield_lane_bci"
    /\ Yield(LaneBci(lane), FALSE)
    /\ IF lane < lane_count
       THEN /\ lane' = lane + 1
            /\ gpc' = "wait_lane_bci"
            /\ UNCHANGED this_cycle
       ELSE /\ lane' = 1
            /\ this_cycle' = 1
            /\ gpc' = "wait_cycle_first"
    /\ UNCHANGED <<lane_count, num_cycles, num_reads, globbed, pending>>
    /\ UNCHANGED <<engineVars, restVars>>

\* self.wait_cycle(cycle): while not this_cycle_file.exists(): sleep
\* (lane 1's data file of the cycle); then for lane in range(1, lane_count + 1)
WaitCycle ==
    /\ gpc \in {"wait_cycle_first", "wait_cycle"}
    /\ FileExists(Bcl(this_cycle, 1), disk)
    /\ gpc' = IF gpc = "wait_cycle_first" THEN "yield_bcl_first" ELSE "yield_bcl"
    /\ lane' = 1
    /\ UNCHANGED <<lane_count, num_cycles, num_reads, disk, this_cycle,
                   nyield, last_yield, last_on_disk, globbed, pending>>
    /\ UNCHANGED <<engineVars, restVars>>

\* yield self.cycle_bcl_files(cycle, lane)
YieldBcl ==
    /\ gpc \in {"yield_bcl_first", "yield_bcl"}
    /\ Yield(Bcl(this_cycle, lane), FALSE)
    /\ gpc' = IF gpc = "yield_bcl_first" THEN "yield_bci_first" ELSE "yield_bci"
    /\ UNCHANGED <<lane_count, num_cycles, num_reads, this_cycle, lane, globbed,
                   pending>>
    /\ UNCHANGED <<engineVars, restVars>>

\* yield self.cycle_bcl_index_files(cycle, lane), cycles 1..5; after the
\* last lane of cycle 5: wait_file(cycle_bcl_files(cycle=6, lane=1))
YieldBciFirst ==
    /\ gpc = "yield_bci_first"
    /\ Yield(Bci(this_cycle, lane), FALSE)
    /\ IF lane < lane_count
       THEN /\ lane' = lane + 1
            /\ gpc' = "yield_bcl_first"
            /\ UNCHANGED this_cycle
       ELSE /\ lane' = 1
            /\ IF this_cycle < FirstCycles
               THEN /\ this_cycle' = this_cycle + 1
                    /\ gpc' = "wait_cycle_first"
               ELSE /\ gpc' = "wait_cycle6"
                    /\ UNCHANGED this_cycle
    /\ UNCHANGED <<lane_count, num_cycles, num_reads, globbed, pending>>
    /\ UNCHANGED <<engineVars, restVars>>

\* self.wait_file(self.cycle_bcl_files(cycle=6, lane=1))
WaitCycle6 ==
    /\ gpc = "wait_cycle6"
    /\ FileExists(Bcl(FirstCycles + 1, 1), disk)
    /\ gpc' = "yield_locs"
    /\ lane' = 1
    /\ UNCHANGED <<lane_count, num_cycles, num_reads, disk, this_cycle,
                   nyield, last_yield, last_on_disk, globbed, pending>>
    /\ UNCHANGED <<engineVars, restVars>>

\* for file in self.location_files: yield file; then this_cycle = 6
YieldLocs ==
    /\ gpc = "yield_locs"
    /\ Yield(Locs(lane), FALSE)
    /\ IF lane < lane_count
       THEN /\ lane' = lane + 1
            /\ UNCHANGED <<gpc, this_cycle>>
       ELSE /\ lane' = 1
            /\ this_cycle' = FirstCycles + 1
            /\ gpc' = "while"
    /\ UNCHANGED <<lane_count, num_cycles, num_reads, globbed, pending>>
    /\ UNCHANGED <<engineVars, restVars>>

\* while self.cycle_count >= this_cycle:
While ==
    /\ gpc = "while"
    /\ gpc' = IF CycleCount(disk, num_cycles) >= this_cycle
              THEN "wait_cycle" ELSE "wait_rta"
    /\ UNCHANGED <<lane_count, num_cycles, num_reads, disk, this_cycle, lane,
                   nyield, last_yield, last_on_disk, globbed, pending>>
    /\ UNCHANGED <<engineVars, restVars>>

\* yield self.cycle_bcl_index_files(this_cycle, lane), cycles 6..; after
\* the last lane: if this_cycle == 25: ...; this_cycle += 1
YieldBci ==
    /\ gpc = "yield_bci"
    /\ Yield(Bci(this_cycle, lane), FALSE)
    /\ IF lane < lane_count
       THEN /\ lane' = lane + 1
            /\ gpc' = "yield_bcl"
            /\ UNCHANGED this_cycle
       ELSE /\ lane' = 1
            /\ IF this_cycle = FilterCycle
               THEN /\ gpc' = "wait_filter"
                    /\ UNCHANGED this_cycle
               ELSE /\ this_cycle' = this_cycle + 1
                    /\ gpc' = "while"
    /\ UNCHANGED <<lane_count, num_cycles, num_reads, globbed, pending>>
    /\ UNCHANGED <<engineVars, restVars>>

\* for file in self.filter_files: self.wait_file(file)
WaitFilter ==
    /\ gpc = "wait_filter"
    /\ FileExists(Filter(lane), disk)
    /\ gpc' = "yield_filter"
    /\ UNCHANGED <<lane_count, num_cycles, num_reads, disk, this_cycle, lane,
                   nyield, last_yield, last_on_disk, globbed, pending>>
    /\ UNCHANGED <<engineVars, restVars>>

\* yield file  (filter file); after the last lane: this_cycle += 1
YieldFilter ==
    /\ gpc = "yield_filter"
    /\ Yield(Filter(lane), FALSE)
    /\ IF lane < lane_count
       THEN /\ lane' = lane + 1
            /\ gpc' = "wait_filter"
            /\ UNCHANGED this_cycle
       ELSE /\ lane' = 1
            /\ this_cycle' = this_cycle + 1
            /\ gpc' = "while"
    /\ UNCHANGED <<lane_count, num_cycles, num_reads, globbed, pending>>
    /\ UNCHANGED <<engineVars, restVars>>

\* self.wait_file(self.rta_complete_txt)
WaitRta ==
    /\ gpc = "wait_rta"
    /\ FileExists(RtaCompleteTxt, disk)
    /\ gpc' = "yield_final"
    /\ lane' = 1
    /\ UNCHANGED <<lane_count, num_cycles, num_reads, disk, this_cycle,
                   nyield, last_yield, last_on_disk, globbed, pending>>
    /\ UNCHANGED <<engineVars, restVars>>

\* yield self.rta_configuration_xml; yield self.run_info_xml;
\* yield self.run_parammeters_xml; yield self.rta_complete_txt
\* (lane counts the yields of this group)
YieldFinal ==
    /\ gpc = "yield_final"
    /\ Yield(FinalPaths[lane], TRUE)
    /\ IF lane < Len(FinalPaths)
       THEN /\ lane' = lane + 1
            /\ UNCHANGED gpc
       ELSE /\ lane' = 1
            /\ gpc' = "glob"
    /\ UNCHANGED <<lane_count, num_cycles, num_reads, this_cycle, globbed, pending>>
    /\ UNCHANGED <<engineVars, restVars>>

\* for x in self.rta_read_complete_txts:  (seq_dir.glob('RTARead*Complete.txt'))
Glob ==
    /\ gpc = "glob"
    /\ globbed' = {f \in disk : f.kind = "read_complete"}
    /\ pending' = globbed'
    /\ gpc' = "yield_read"
    /\ UNCHANGED <<lane_count, num_cycles, num_reads, disk, this_cycle, lane,
                   nyield, last_yield, last_on_disk>>
    /\ UNCHANGED <<engineVars, restVars>>

\* yield x  (the glob gives the markers in no particular order)
YieldRead ==
    /\ gpc = "yield_read"
    /\ \E f \in pending :
         /\ Yield(f, TRUE)
         /\ pending' = pending \ {f}
    /\ UNCHANGED <<lane_count, num_cycles, num_reads, gpc, this_cycle, lane,
                   globbed>>
    /\ UNCHANGED <<engineVars, restVars>>

\* the generator is exhausted
GenReturn ==
    /\ gpc = "yield_read"
    /\ pending = {}
    /\ gpc' = "done"
    /\ UNCHANGED <<lane_count, num_cycles, num_reads, disk, this_cycle, lane,
                   nyield, last_yield, last_on_disk, globbed, pending>>
    /\ UNCHANGED <<engineVars, restVars>>

\* a step of the generator
GenStep ==
    \/ WaitRunInfo
    \/ YieldRunInfo
    \/ WaitRunParams
    \/ YieldRunParams
    \/ WaitLaneBci
    \/ YieldLaneBci
    \/ WaitCycle
    \/ YieldBcl
    \/ YieldBciFirst
    \/ WaitCycle6
    \/ YieldLocs
    \/ While
    \/ YieldBci
    \/ WaitFilter
    \/ YieldFilter
    \/ WaitRta
    \/ YieldFinal
    \/ Glob
    \/ YieldRead
    \/ GenReturn

\* Sequence(seqdir, lane) on a run directory the instrument has not yet
\* written to; the run will have num_cycles cycles and num_reads reads
EngineIdle ==
    /\ known_chips = <<>>
    /\ queued_chips = {}
    /\ new_chips = <<>>
    /\ current_chip = NoChip
    /\ exit_stat = FALSE
    /\ history_exists = FALSE
    /\ history_file = {}
    /\ mpc = "load"
    /\ ppc = "idle"
    /\ cpc = "idle"
    /\ valid_chips = {}
    /\ px = NoChip
    /\ dest = {}

InitSeq ==
    /\ EngineIdle
    /\ RestIdle
    /\ lane_count \in 1..MaxLane
    /\ num_cycles \in 1..MaxCycle
    /\ num_reads \in 0..MaxReads
    /\ disk = {}
    /\ gpc = "wait_run_info"
    /\ this_cycle = 0
    /\ lane = 0
    /\ nyield = 0
    /\ last_yield = File("none")
    /\ last_on_disk = FALSE
    /\ globbed = {}
    /\ pending = {}

NextSeq ==
    \/ GenStep
    \/ \E f \in NearBy : Appear(f)

SpecSeq == InitSeq /\ [][NextSeq]_vars

----
(***************************************************************************)
(* Properties of the sequencer (checked under SpecSeq).                    *)
(***************************************************************************)
\* the k-th path of a run of per-lane (data file, index file) pairs that
\* starts at cycle first, for L lanes
C7_PairAt(k, first, L) ==
    LET c == first + ((k - 1) \div (2 * L))
        r == (k - 1) % (2 * L)
        l == (r \div 2) + 1
    IN  IF r % 2 = 0 THEN Bcl(c, l) ELSE Bci(c, l)

\* the n-th path of the order the sequencer is to follow, for L lanes and C
\* cycles; a read-complete marker stands for any of them
C7_Expected(n, L, C) ==
    LET head == 2
        lbci == head + L
        five == lbci + (5 * 2 * L)
        locs == five + L
        upto25 == locs + ((25 - 5) * 2 * L)
        filters == IF C >= 25 THEN L ELSE 0
        cycles == locs + ((C - 5) * 2 * L) + filters
    IN  IF n = 1 THEN RunInfo
        ELSE IF n = 2 THEN RunParams
        ELSE IF n <= lbci THEN LaneBci(n - head)
        ELSE IF n <= five THEN C7_PairAt(n - lbci, 1, L)
        ELSE IF n <= locs THEN Locs(n - five)
        ELSE IF n <= cycles THEN
                 IF C < 25 \/ n <= upto25 THEN C7_PairAt(n - locs, 6, L)
                 ELSE IF n <= upto25 + L THEN Filter(n - upto25)
                 ELSE C7_PairAt(n - locs - L, 6, L)
        ELSE IF n = cycles + 1 THEN RtaConfig
        ELSE IF n = cycles + 2 THEN RunInfo
        ELSE IF n = cycles + 3 THEN RunParams
        ELSE IF n = cycles + 4 THEN RtaCompleteTxt
        ELSE File("read_complete")

\* C7: the paths come in the fixed order: descriptor, parameters, lane-level
\* index files, cycles 1..5 (per lane: data file, then index file), location
\* files (lane 1's cycle-6 data file being on disk), cycles 6..cycleCount
\* with the filter files right after cycle 25, then RTA configuration,
\* descriptor, parameters, RTA-complete marker and the read-complete markers.
C7_FixedOrder ==
    nyield > 0 =>
        LET want == C7_Expected(nyield, lane_count, num_cycles)
        IN  /\ IF want.kind = "read_complete"
               THEN last_yield \in globbed
               ELSE last_yield = want
            /\ last_yield.kind = "locs" => Bcl(6, 1) \in disk

\* C7 witness: a run of at least 25 cycles and several lanes with a
\* read-complete marker has been sequenced to the end.
C7_Witness ==
    /\ gpc = "done"
    /\ num_cycles >= 25
    /\ lane_count >= 2
    /\ last_yield.kind = "read_complete"

\* the number of paths of C8 with `final` fixed paths in the last group
C8_Count(final) ==
    2 + lane_count + (5 * 2 * lane_count) + lane_count
      + ((num_cycles - 5) * 2 * lane_count)
      + (IF num_cycles >= 25 THEN lane_count ELSE 0)
      + final + Cardinality(globbed)

\* C8 as stated: a finished sequence has 2 + L + 5*2*L + L + (C-5)*2*L +
\* (L iff C >= 25) + 5 + readCompleteCount paths.
C8_CountWithFive == gpc = "done" => nyield = C8_Count(5)

\* C8 amended: a finished sequence has 2 + L + 5*2*L + L + (C-5)*2*L +
\* (L iff C >= 25) + 4 + readCompleteCount paths.
C8_CountWithFour == gpc = "done" => nyield = C8_Count(4)

\* C8 witness: a fully populated run of at least 25 cycles (filter files
\* counted) with all its read-complete markers found has been sequenced.
C8_Witness ==
    /\ gpc = "done"
    /\ num_cycles >= 25
    /\ lane_count >= 2
    /\ num_reads >= 1
    /\ Cardinality(globbed) = num_reads

\* C9: the generator finishes: when every declared file it waits for has
\* appeared it is done or can take a step (it is never stuck).
C9_Finishes == gpc = "done" \/ ENABLED NextSeq

\* C10 as stated: every path yielded was on disk when it was yielded.
C10_EveryPathGated == nyield > 0 => last_on_disk

\* the paths a wait_file or wait_cycle polls for before they are yielded,
\* and the markers the glob found
C10_Awaited(f) ==
    \/ f.kind \in {"run_info", "run_params", "lane_bci", "filter", "rta_complete",
                   "read_complete"}
    \/ f.kind = "bcl" /\ f.lane = 1

\* C10 amended: the descriptor, the parameters, the lane-level index files,
\* lane 1's data file of each cycle, the filter files, the RTA-complete
\* marker and the globbed read-complete markers were on disk when yielded.
C10_AwaitedGated == (nyield > 0 /\ C10_Awaited(last_yield)) => last_on_disk

\* C10 witness: the last lane's filter file, awaited, has been yielded.
C10_Witness ==
    /\ last_yield = Filter(lane_count)
    /\ lane_count >= 2
    /\ last_on_disk

----
(***************************************************************************)
(* SpecOracle: cycle_count and the completion predicates of nextseq.py and *)
(* pull.py, and the branch pull() of pull2.py takes on them, applied to a  *)
(* run directory in any state of completion.                               *)
(***************************************************************************)
\* largest number of Read elements in a RunInfo.xml
MaxReadElems == 2
\* largest NumCycles attribute of a Read element
MaxNumCycles == 1
\* largest cycle whose files the run directory holds
MaxDiskCycle == 2

\* Sequence(seqdir, lane: int=4), as PushTask.seq constructs it
DefaultLane == 4
\* len(cycle_files) != 4 * cycles
LanesExpected == 4
\* time.time() - done_flag.stat().st_ctime >= 300
SettleSeconds == 300

\* a Read element without the NumCycles attribute
NoAttr == -1
\* int(read.get('NumCycles', 0))
NumCyclesOfDefaultOne(attr) == IF attr = NoAttr THEN 1 ELSE attr
NumCyclesOf(attr) == IF attr = NoAttr THEN 0 ELSE attr

\* count = 0; for read in tree.findall('./Run/Reads/Read'): count += ...
RECURSIVE SumNumCycles(_)
SumNumCycles(reads) ==
    IF reads = <<>> THEN 0
    ELSE NumCyclesOf(Head(reads)) + SumNumCycles(Tail(reads))

\* Sequence.cycle_count of a run directory
SeqCycleCount(files, reads) == CycleCount(files, SumNumCycles(reads))

\* pull.py: find_read_length(runinfo)
FindReadLength(reads) == SumNumCycles(reads)

\* self.run_completion_status_xml / done_flag
RunCompletionStatusXml == File("run_completion_status")

\* Sequence.is_run_complete
IsRunComplete(files) == FileExists(RunCompletionStatusXml, files)

\* Sequence.is_rta_complete
IsRtaComplete(files) == FileExists(RtaCompleteTxt, files)

\* Sequence.is_file_complete, with all_exists over the per-lane lists
IsFileComplete(files, reads) ==
    LET n == SeqCycleCount(files, reads)
        lanes == 1..DefaultLane
    IN  /\ \A l \in lanes : \A c \in 1..n : FileExists(Bcl(c, l), files)
        /\ \A l \in lanes : \A c \in 1..n : FileExists(Bci(c, l), files)
        /\ \A l \in lanes : FileExists(LaneBci(l), files)
        /\ \A l \in lanes : FileExists(Locs(l), files)
        /\ \A l \in lanes : FileExists(Filter(l), files)
        /\ FileExists(RunInfo, files)

\* (chip_dir / 'Data/Intensities/BaseCalls').glob('**/*.bcl.bgzf')
GlobBcl(files) == {f \in files : f.kind = "bcl"}

IsSequencingFinisehdUnsettled(files, reads, age) ==
    /\ FileExists(File("run_completion_status"), files)
    /\ FileExists(RunInfo, files)
    /\ Cardinality({f \in files : f.kind = "bcl"}) = 4 * SumNumCycles(reads)

\* pull.py: is_sequencing_finisehd(chip_dir)
IsSequencingFinisehd(files, reads, age) ==
    IF ~FileExists(RunCompletionStatusXml, files) THEN FALSE
    ELSE IF ~FileExists(RunInfo, files) THEN FALSE
    ELSE IF Cardinality(GlobBcl(files)) # LanesExpected * FindReadLength(reads)
         THEN FALSE
    ELSE age >= SettleSeconds

\* pull2.py: the branch pull() takes
PullBranch(files, reads) ==
    IF IsFileComplete(files, reads) /\ IsRunComplete(files) /\ IsRtaComplete(files)
    THEN "pull_all"
    ELSE "incremental"

(***************************************************************************)
(* The run directories and descriptors the functions are applied to.       *)
(***************************************************************************)
ReadAttrs == {NoAttr} \cup 0..MaxNumCycles
ReadLists == UNION {[1..n -> ReadAttrs] : n \in 0..MaxReadElems}

\* the data files of a run written up to cycle k on all lanes
DataFiles(k) ==
    {Bcl(c, l) : c \in 1..k, l \in 1..DefaultLane}
    \cup {Bci(c, l) : c \in 1..k, l \in 1..DefaultLane}
    \cup {LaneBci(l) : l \in 1..DefaultLane}
    \cup {Locs(l) : l \in 1..DefaultLane}
    \cup {Filter(l) : l \in 1..DefaultLane}

TopFiles == {RunInfo, RunCompletionStatusXml, RtaCompleteTxt}

\* written up to some cycle, at most one data file missing, any top files
RunDirs ==
    {(DataFiles(k) \ miss) \cup top :
        k \in 0..MaxDiskCycle,
        miss \in {{}} \cup {{f} : f \in DataFiles(MaxDiskCycle)},
        top \in SUBSET TopFiles}

Ages == {0, SettleSeconds - 1, SettleSeconds}

InitOracle ==
    /\ EngineIdle
    /\ SeqIdle
    /\ o_disk \in RunDirs
    /\ o_reads \in IF RunInfo \in o_disk THEN ReadLists ELSE {<<>>}
    /\ o_age \in IF RunCompletionStatusXml \in o_disk THEN Ages ELSE {0}
    /\ o_out = [fn |-> "none", val |-> FALSE]
    /\ PullIdle
    /\ FileIdle
    /\ SigIdle
    /\ RunIdle
    /\ WaitIdle

Returned(fn, val) ==
    /\ o_out' = [fn |-> fn, val |-> val]
    /\ UNCHANGED <<o_disk, o_reads, o_age>>
    /\ UNCHANGED <<engineVars, seqVars, pullVars, fileVars, sigVars, runVars, waitVars>>

CallCycleCount ==
    Returned("cycle_count", SeqCycleCount(o_disk, o_reads))

CallIsFileComplete ==
    Returned("is_file_complete", IsFileComplete(o_disk, o_reads))

CallIsRunComplete ==
    Returned("is_run_complete", IsRunComplete(o_disk))

CallIsSequencingFinisehd ==
    Returned("is_sequencing_finisehd", IsSequencingFinisehd(o_disk, o_reads, o_age))

CallPull ==
    Returned("pull", PullBranch(o_disk, o_reads))

NextOracle ==
    \/ CallCycleCount
    \/ CallIsFileComplete
    \/ CallIsRunComplete
    \/ CallIsSequencingFinisehd
    \/ CallPull

SpecOracle == InitOracle /\ [][NextOracle]_vars

(***************************************************************************)
(* Properties of the completion predicates (checked under SpecOracle).     *)
(***************************************************************************)
\* the three conditions of runComplete: the marker exists, the number of
\* data files is 4 x cycleCount, the marker is at least 300 seconds old
MarkerPresent == RunCompletionStatusXml \in o_disk
DataFileCountMatches ==
    Cardinality({f \in o_disk : f.kind = "bcl"}) = 4 * SeqCycleCount(o_disk, o_reads)
MarkerSettled == o_age >= 300

\* C11: a runComplete predicate (Sequence.is_run_complete of nextseq.py,
\* is_sequencing_finisehd of pull.py) returns true only when the completion
\* marker exists, the number of data files equals 4 x cycleCount and the
\* marker is at least 300 seconds old.
C11_RunCompleteOnlyWhenSettled ==
    (o_out.fn \in {"is_run_complete", "is_sequencing_finisehd"} /\ o_out.val)
        => MarkerPresent /\ DataFileCountMatches /\ MarkerSettled

\* C12: pull() takes the one-pass branch only when the RTA marker exists,
\* all declared files are present, and runComplete holds with its data-file
\* count check and its 300-second settle window.
C12_OnePassOnlyWhenSettled ==
    (o_out.fn = "pull" /\ o_out.val = "pull_all")
        => /\ RtaCompleteTxt \in o_disk
           /\ IsFileComplete(o_disk, o_reads)
           /\ MarkerPresent /\ DataFileCountMatches /\ MarkerSettled

\* the sum of the NumCycles attributes that are present, counted one by one
C20_Sum(reads) ==
    Cardinality({p \in (1..Len(reads)) \X (1..MaxNumCycles) : p[2] <= reads[p[1]]})

\* C20: cycle_count returns the sum of NumCycles over the Read elements of
\* the run descriptor, a missing attribute counting 0; without the
\* descriptor it returns 9999, so that the loop condition
\* this_cycle <= cycle_count is true for every cycle and is_file_complete
\* is false.
C20_CycleCount ==
    o_out.fn = "cycle_count" =>
        IF RunInfo \in o_disk
        THEN o_out.val = C20_Sum(o_reads)
        ELSE /\ o_out.val = 9999
             /\ \A c \in 1..(MaxCycle + MaxDiskCycle) : c <= o_out.val
             /\ ~IsFileComplete(o_disk, o_reads)

\* C20 witness: cycle_count has summed a descriptor that has a Read element
\* without NumCycles next to one with a positive NumCycles.
C20_Witness ==
    /\ o_out.fn = "cycle_count"
    /\ RunInfo \in o_disk
    /\ \E i \in 1..Len(o_reads) : o_reads[i] = NoAttr
    /\ \E i \in 1..Len(o_reads) : o_reads[i] >= 1
    /\ o_out.val >= 1

----
(***************************************************************************)
(* SpecPull: one call of PushTask.pull, pull_path call by pull_path call.  *)
(* A directory is transferred as the one file it holds.  The paths of      *)
(* iter_data_files are taken as the generator hands them out (SpecSeq has  *)
(* their order); q_nseq is how many there are.  Each transfer may find the *)
(* remote object equal, different or absent, and each remote call may      *)
(* raise.                                                                  *)
(***************************************************************************)
\* largest number of paths iter_data_files yields
MaxSeqPaths == 32
\* largest number of transfers that fail during one pull()
MaxFailures == 2

\* if count % 16 == 0
InteropPeriodShort == 16 - 1
InteropPeriod == 16

\* self.seq.recipe_dir, config_dir, interop_dir
RecipeDir == File("recipe")
ConfigDir == File("config")
InteropDir == File("interop")

\* self.seq.non_important_paths()
NonImportantPaths ==
    <<File("images"), File("thumbnail_images"), File("rtalogs"), File("logs")>>

\* the i-th path of self.seq.iter_data_files()
DataPath(i) == LaneFile("data", i)

\* number of occurrences of path p in list s
Occurrences(s, p) == Cardinality({i \in 1..Len(s) : s[i] = p})

\* the parts of the incremental pass of pull(), in program order
PullOrderMarkerBeforeRetry ==
    <<"recipe", "config", "data", "non_important", "interop", "marker", "retry">>
PullOrder ==
    <<"recipe", "config", "data", "non_important", "interop", "retry", "marker">>

\* where each part starts
StageEntry(part) ==
    CASE part \in {"recipe", "config"} -> "wait"
      [] part \in {"data", "non_important"} -> "for"
      [] part = "retry" -> "copy"
      [] OTHER -> "pull"

(***************************************************************************)
(* pull_file(path, force).  lookup is what bucket.get_object(name) and the *)
(* size comparison of line 163-164 find, upload how resumable_upload ends, *)
(* check how check_size ends.                                              *)
(***************************************************************************)
ForceArgs == {"None", "True", "False"}
Lookups == {"same", "differs", "absent", "error"}
Uploads == {"ok", "error"}
Checks == {"match", "mismatch", "error"}

\* if force is None: force = self.force
LocalForce(f, self_force) == IF f = "None" THEN self_force ELSE f = "True"

\* not force and not self.force and remoteobj.content_length == st_size
SkipsNever(f, self_force, lookup) == FALSE
Skips(f, self_force, lookup) ==
    ~LocalForce(f, self_force) /\ ~self_force /\ lookup = "same"

\* how the call ends: "raised" (an exception leaves pull_file), "skipped"
\* (return of line 165), "failed" (line 172-174), "uploaded"
PullFileResult(f, self_force, lookup, upload, check) ==
    IF lookup = "error" THEN "raised"
    ELSE IF Skips(f, self_force, lookup) THEN "skipped"
    ELSE IF upload = "error" \/ check # "match" THEN "failed"
    ELSE "uploaded"

\* pull_path(path, force=f) called from part phase of pull(); the call
\* leaves pull() at pc (and the consumer at c) unless it raises
PullPath(phase, path, f, stage, pc, c) ==
    \E lookup \in Lookups, upload \in Uploads, check \in Checks :
        LET r == PullFileResult(f, force, lookup, upload, check)
        IN  /\ r = "failed" => q_nfail < MaxFailures
            /\ failed_files' = IF r = "failed" THEN Append(failed_files, path)
                               ELSE failed_files
            /\ q_nfail' = IF r = "failed" THEN q_nfail + 1 ELSE q_nfail
            /\ q_failed_log' = IF r = "failed" /\ phase # "retry"
                               THEN Append(q_failed_log, path)
                               ELSE q_failed_log
            /\ q_forced_log' = IF phase = "retry" THEN Append(q_forced_log, path)
                               ELSE q_forced_log
            /\ q_last' = [phase |-> phase, path |-> path, forced |-> f, result |-> r]
            /\ q_seen' = q_seen \cup {phase}
            /\ IF r = "raised"
               THEN /\ cpc' = "crashed"
                    /\ UNCHANGED <<q_stage, q_pc>>
               ELSE /\ cpc' = c
                    /\ q_stage' = stage
                    /\ q_pc' = pc

\* the part of pull() after the current one, or the statements of line 221
NextStage == IF q_stage < Len(PullOrder) THEN q_stage + 1 ELSE q_stage
NextPc == IF q_stage < Len(PullOrder) THEN StageEntry(PullOrder[q_stage + 1]) ELSE "end"
NextCpc == IF q_stage < Len(PullOrder) THEN cpc ELSE "mark"

\* a pull_path call that is the last statement of its part
Advance(phase, path, f) == PullPath(phase, path, f, NextStage, NextPc, NextCpc)

Running(part, pc) ==
    /\ cpc = "incremental"
    /\ PullOrder[q_stage] = part
    /\ q_pc = pc

PullFrame ==
    /\ UNCHANGED <<known_chips, queued_chips, new_chips, current_chip, exit_stat,
                   history_exists, history_file, mpc, ppc, valid_chips, px, dest>>
    /\ UNCHANGED <<seqVars, oracleVars, fileVars, sigVars, runVars, waitVars>>
    /\ UNCHANGED <<force, q_nseq>>


\* the instrument creates Recipe or Config
PullAppear(d) ==
    /\ cpc \in {"pull", "incremental"}
    /\ d \in {RecipeDir, ConfigDir} \ q_disk
    /\ q_disk' = q_disk \cup {d}
    /\ UNCHANGED <<failed_files, pull_error, count, q_stage, q_pc, q_i, q_last,
                   q_seen, q_nfail, q_failed_log, q_forced_log, cpc>>
    /\ PullFrame

\* pull(): the error list is emptied and the branch is chosen
PullEnter ==
    /\ cpc = "pull"
    /\ failed_files' = <<>>
    /\ \E complete \in BOOLEAN :
         cpc' = IF complete THEN "pull_all" ELSE "incremental"
    /\ q_stage' = 1
    /\ q_pc' = StageEntry(PullOrder[1])
    /\ UNCHANGED <<pull_error, count, q_i, q_disk, q_last, q_seen, q_nfail,
                   q_failed_log, q_forced_log>>
    /\ PullFrame

\* self.seq.wait_file(self.seq.recipe_dir) returns
WaitRecipe ==
    /\ Running("recipe", "wait")
    /\ FileExists(RecipeDir, q_disk)
    /\ q_pc' = "pull"
    /\ UNCHANGED <<failed_files, pull_error, count, q_stage, q_i, q_disk, q_last,
                   q_seen, q_nfail, q_failed_log, q_forced_log, cpc>>
    /\ PullFrame

\* self.pull_path(self.seq.recipe_dir)
PullRecipe ==
    /\ Running("recipe", "pull")
    /\ Advance("recipe", RecipeDir, "None")
    /\ UNCHANGED <<pull_error, count, q_i, q_disk>>
    /\ PullFrame

\* self.seq.wait_file(self.seq.config_dir) returns
WaitConfig ==
    /\ Running("config", "wait")
    /\ FileExists(ConfigDir, q_disk)
    /\ q_pc' = "pull"
    /\ UNCHANGED <<failed_files, pull_error, count, q_stage, q_i, q_disk, q_last,
                   q_seen, q_nfail, q_failed_log, q_forced_log, cpc>>
    /\ PullFrame

\* self.pull_path(self.seq.config_dir); count = 0
PullConfig ==
    /\ Running("config", "pull")
    /\ Advance("config", ConfigDir, "None")
    /\ count' = 0
    /\ UNCHANGED <<pull_error, q_i, q_disk>>
    /\ PullFrame

\* for path in self.seq.iter_data_files(): self.pull_path(path); count += 1;
\* if count % 16 == 0
PullData ==
    /\ Running("data", "for")
    /\ count < q_nseq
    /\ count' = count + 1
    /\ PullPath("data", DataPath(count + 1), "None", q_stage,
                IF count' % InteropPeriod = 0 THEN "interop" ELSE "for", cpc)
    /\ UNCHANGED <<pull_error, q_i, q_disk>>
    /\ PullFrame

\* self.pull_path(self.seq.interop_dir), inside the loop
PullInteropInLoop ==
    /\ Running("data", "interop")
    /\ PullPath("data", InteropDir, "None", q_stage, "for", cpc)
    /\ UNCHANGED <<pull_error, count, q_i, q_disk>>
    /\ PullFrame

\* the generator is exhausted
DataExhausted ==
    /\ Running("data", "for")
    /\ count = q_nseq
    /\ q_stage' = NextStage
    /\ q_pc' = NextPc
    /\ cpc' = NextCpc
    /\ q_i' = 1
    /\ UNCHANGED <<failed_files, pull_error, count, q_disk, q_last, q_seen, q_nfail,
                   q_failed_log, q_forced_log>>
    /\ PullFrame

\* for path in self.seq.non_important_paths(): self.pull_path(path)
PullNonImportant ==
    /\ Running("non_important", "for")
    /\ q_i' = q_i + 1
    /\ IF q_i < Len(NonImportantPaths)
       THEN PullPath("non_important", NonImportantPaths[q_i], "None", q_stage, "for", cpc)
       ELSE Advance("non_important", NonImportantPaths[q_i], "None")
    /\ UNCHANGED <<pull_error, count, q_disk>>
    /\ PullFrame

\* self.pull_path(self.seq.interop_dir), after the loops
PullInteropLast ==
    /\ Running("interop", "pull")
    /\ Advance("interop", InteropDir, "None")
    /\ UNCHANGED <<pull_error, count, q_i, q_disk>>
    /\ PullFrame

\* pull_error = self.failed_files.copy(); self.failed_files = []
RetryCopy ==
    /\ Running("retry", "copy")
    /\ pull_error' = failed_files
    /\ failed_files' = <<>>
    /\ q_pc' = "for"
    /\ UNCHANGED <<count, q_stage, q_i, q_disk, q_last, q_seen, q_nfail,
                   q_failed_log, q_forced_log, cpc>>
    /\ PullFrame

\* for path in pull_error: self.pull_path(path, force=True)
PullRetry ==
    /\ Running("retry", "for")
    /\ pull_error # <<>>
    /\ pull_error' = Tail(pull_error)
    /\ PullPath("retry", Head(pull_error), "True", q_stage, "for", cpc)
    /\ UNCHANGED <<count, q_i, q_disk>>
    /\ PullFrame

\* the retry loop ends; if len(self.failed_files) != 0: logger.error(...)
RetryDone ==
    /\ Running("retry", "for")
    /\ pull_error = <<>>
    /\ q_stage' = NextStage
    /\ q_pc' = NextPc
    /\ cpc' = NextCpc
    /\ UNCHANGED <<failed_files, pull_error, count, q_i, q_disk, q_last, q_seen,
                   q_nfail, q_failed_log, q_forced_log>>
    /\ PullFrame

\* self.pull_path(self.seq.run_completion_status_xml)
PullMarker ==
    /\ Running("marker", "pull")
    /\ Advance("marker", RunCompletionStatusXml, "None")
    /\ UNCHANGED <<pull_error, count, q_i, q_disk>>
    /\ PullFrame

\* the consumer has dequeued run 1 and is about to call pull()
InitPull ==
    /\ known_chips = <<>>
    /\ queued_chips = {1}
    /\ new_chips = <<>>
    /\ current_chip = 1
    /\ exit_stat = FALSE
    /\ history_exists = TRUE
    /\ history_file = {}
    /\ mpc = "join"
    /\ ppc = "sleep"
    /\ cpc = "pull"
    /\ valid_chips = {}
    /\ px = NoChip
    /\ dest = {1}
    /\ SeqIdle
    /\ OracleIdle
    /\ FileIdle
    /\ SigIdle
    /\ RunIdle
    /\ WaitIdle
    /\ force \in BOOLEAN
    /\ failed_files = <<>>
    /\ pull_error = <<>>
    /\ count = 0
    /\ q_stage = 1
    /\ q_pc = "idle"
    /\ q_i = 1
    /\ q_nseq \in {InteropPeriod + 1, MaxSeqPaths}
    /\ q_disk = {}
    /\ q_last = [phase |-> "none", path |-> File("none"), forced |-> "None",
                 result |-> "none"]
    /\ q_seen = {}
    /\ q_nfail = 0
    /\ q_failed_log = <<>>
    /\ q_forced_log = <<>>

NextPull ==
    \/ \E d \in {RecipeDir, ConfigDir} : PullAppear(d)
    \/ PullEnter
    \/ PullAll
    \/ WaitRecipe
    \/ PullRecipe
    \/ WaitConfig
    \/ PullConfig
    \/ PullData
    \/ PullInteropInLoop
    \/ DataExhausted
    \/ PullNonImportant
    \/ PullInteropLast
    \/ RetryCopy
    \/ PullRetry
    \/ RetryDone
    \/ PullMarker
    \/ PullMark
    \/ PullRemove
    \/ PullDump

SpecPull == InitPull /\ [][NextPull]_vars


(***************************************************************************)
(* Properties of the incremental pass (checked under SpecPull).            *)
(***************************************************************************)
\* the position the claim gives each part of the pass
C13_Rank(phase) ==
    CASE phase = "none" -> 0
      [] phase = "recipe" -> 1
      [] phase = "config" -> 2
      [] phase = "data" -> 3
      [] phase = "non_important" -> 4
      [] phase = "interop" -> 5
      [] phase = "retry" -> 6
      [] phase = "marker" -> 7

\* the parts that make a transfer in every pass
C13_Always == {"recipe", "config", "data", "non_important", "interop", "marker"}

\* C13: the incremental pass transfers the recipe directory, then the
\* config directory (each once it exists), then every path of the
\* sequencer, then the non-critical directories, then the diagnostics
\* directory, then retries the failed paths with forcing, and transfers the
\* completion marker last; the run is marked done and leaves queued_chips
\* only after the completion marker's transfer has been attempted.
C13_IncrementalOrder ==
    /\ \A p \in q_seen : C13_Rank(p) <= C13_Rank(q_last.phase)
    /\ \A p \in q_seen : \A m \in C13_Always : C13_Rank(m) < C13_Rank(p) => m \in q_seen
    /\ "recipe" \in q_seen => RecipeDir \in q_disk
    /\ "config" \in q_seen => ConfigDir \in q_disk
    /\ (\E p \in q_seen : C13_Rank(p) > 3) => count = q_nseq
    /\ ("marker" \in q_seen /\ \E i \in 1..Len(q_failed_log) :
                                  q_failed_log[i] # RunCompletionStatusXml)
           => "retry" \in q_seen
    /\ Done(known_chips, current_chip) => q_last.phase = "marker"
    /\ current_chip \notin queued_chips => q_last.phase = "marker"

\* C13 witness: pull() has returned from an incremental pass that had a
\* failed path to retry, and the run is recorded.
C13_Witness ==
    /\ cpc = "get"
    /\ Done(known_chips, current_chip)
    /\ current_chip \notin queued_chips
    /\ "retry" \in q_seen
    /\ q_last.phase = "marker"

\* C14: when the pass is over, every path whose transfer failed has been
\* transferred exactly once more with forcing, whether it failed once or
\* several times, the completion marker included.
C14_RetriedExactlyOnce ==
    (cpc \in {"mark", "remove", "dump", "get"} /\ "marker" \in q_seen) =>
        \A p \in {q_failed_log[i] : i \in 1..Len(q_failed_log)} :
            Occurrences(q_forced_log, p) = 1

\* C15: no failure inside pull_file (remote size lookup, upload, size check
\* after the upload) leaves pull_file as an exception or ends the pass.
C15_FailureCaught ==
    /\ q_last.result # "raised"
    /\ cpc # "crashed"

----
(***************************************************************************)
(* SpecFile: pull_file called repeatedly on one file, with the remote      *)
(* object whose size the calls read and write.                             *)
(***************************************************************************)
\* largest size of the file
MaxSize == 2
\* largest number of pull_file calls
MaxCalls == 3

Sizes == 1..MaxSize
\* bucket.get_object(name) raises NoSuchKey
Absent == 0

\* what lines 163-164 find on a remote object of size remote
LookupOf(remote, local, raises) ==
    IF raises THEN "error"
    ELSE IF remote = Absent THEN "absent"
    ELSE IF remote = local THEN "same"
    ELSE "differs"

\* what check_size finds after an upload that stored size stored
CheckOf(stored, local, raises) ==
    IF raises THEN "error"
    ELSE IF stored = local THEN "match"
    ELSE "mismatch"

\* pull_file reached resumable_upload
Wrote(r) == r \in {"uploaded", "failed"}

\* self.pull_file(path, force=f)
FilePull(f) ==
    /\ f_calls < MaxCalls
    /\ \E raises \in BOOLEAN, upload \in Uploads, stored \in Sizes,
          check_raises \in BOOLEAN :
         LET lookup == LookupOf(f_remote, f_local, raises)
             check == CheckOf(stored, f_local, check_raises)
             r == PullFileResult(f, force, lookup, upload, check)
         IN  /\ f_remote' = IF Wrote(r) /\ upload = "ok" THEN stored ELSE f_remote
             /\ f_writes' = IF Wrote(r) THEN f_writes + 1 ELSE f_writes
             /\ failed_files' = IF r = "failed"
                                THEN Append(failed_files, File("file"))
                                ELSE failed_files
             /\ f_last' = [forced |-> f, result |-> r]
    /\ f_calls' = f_calls + 1
    /\ f_changed' = FALSE
    /\ UNCHANGED <<f_local, force>>
    /\ UNCHANGED <<pull_error, count, q_stage, q_pc, q_i, q_nseq, q_disk, q_last,
                   q_seen, q_nfail, q_failed_log, q_forced_log>>
    /\ UNCHANGED <<engineVars, seqVars, oracleVars, sigVars, runVars, waitVars>>

\* the instrument writes to the file
LocalWrite(s) ==
    /\ f_calls < MaxCalls
    /\ ~f_changed
    /\ f_local' = s
    /\ f_changed' = TRUE
    /\ UNCHANGED <<f_remote, f_calls, f_writes, f_last>>
    /\ UNCHANGED <<engineVars, seqVars, oracleVars, pullVars, sigVars, runVars, waitVars>>

InitFile ==
    /\ EngineIdle
    /\ SeqIdle
    /\ OracleIdle
    /\ SigIdle
    /\ RunIdle
    /\ WaitIdle
    /\ force \in BOOLEAN
    /\ failed_files = <<>>
    /\ pull_error = <<>>
    /\ count = 0
    /\ q_stage = 1
    /\ q_pc = "idle"
    /\ q_i = 1
    /\ q_nseq = 0
    /\ q_disk = {}
    /\ q_last = [phase |-> "none", path |-> File("none"), forced |-> "None",
                 result |-> "none"]
    /\ q_seen = {}
    /\ q_nfail = 0
    /\ q_failed_log = <<>>
    /\ q_forced_log = <<>>
    /\ f_local \in Sizes
    /\ f_remote \in {Absent} \cup Sizes
    /\ f_calls = 0
    /\ f_writes = 0
    /\ f_last = [forced |-> "None", result |-> "none"]
    /\ f_changed = FALSE

NextFile ==
    \/ \E f \in ForceArgs : FilePull(f)
    \/ \E s \in Sizes : LocalWrite(s)

SpecFile == InitFile /\ [][NextFile]_vars

----
(***************************************************************************)
(* SpecSignal: signal_handle with signals that arrive while an earlier     *)
(* invocation is still running.  The interpreter calls a Python signal     *)
(* handler in the main thread between two bytecodes, also between two      *)
(* bytecodes of a handler that is running, so invocations nest: h_stack    *)
(* holds the position of each, the innermost last.  The queue holds no     *)
(* runs here; the producer and the consumer run as in Spec.                *)
(***************************************************************************)
\* largest number of signal_handle invocations in progress at once
MaxNest == 3

\* the innermost invocation
Top(h) == h[Len(h)]
\* the stack with its innermost invocation at position pc
SetTop(h, pc) == [h EXCEPT ![Len(h)] = pc]
\* the stack without its innermost invocation
Pop(h) == SubSeq(h, 1, Len(h) - 1)

\* what signal_handle leaves alone
SignalFrame ==
    /\ UNCHANGED <<known_chips, queued_chips, current_chip, history_exists,
                   history_file, ppc, cpc, valid_chips, px, dest>>
    /\ UNCHANGED <<seqVars, oracleVars, pullVars, fileVars, runVars, waitVars>>

\* SIGINT or SIGTERM arrives: signal_handle is entered
HandlerEnter ==
    /\ mpc = "join"
    /\ Len(h_stack) < MaxNest
    /\ h_stack' = Append(h_stack, "check")
    /\ UNCHANGED <<mpc, exit_stat, new_chips>>
    /\ SignalFrame

\* if self.exit_stat: raise SystemExit(...)
HandlerCheck ==
    /\ mpc = "join"
    /\ h_stack # <<>>
    /\ Top(h_stack) = "check"
    /\ IF exit_stat
       THEN /\ mpc' = "exited"
            /\ h_stack' = <<>>
       ELSE /\ h_stack' = SetTop(h_stack, "flag")
            /\ UNCHANGED mpc
    /\ UNCHANGED <<exit_stat, new_chips>>
    /\ SignalFrame

\* self.exit_stat = True
HandlerSetFlag ==
    /\ mpc = "join"
    /\ h_stack # <<>>
    /\ Top(h_stack) = "flag"
    /\ exit_stat' = TRUE
    /\ h_stack' = SetTop(h_stack, "put")
    /\ UNCHANGED <<mpc, new_chips>>
    /\ SignalFrame

\* self.new_chips.put((-1, None)), and the handler returns
HandlerPut ==
    /\ mpc = "join"
    /\ h_stack # <<>>
    /\ Top(h_stack) = "put"
    /\ new_chips' = PQPut(new_chips, SentinelItem)
    /\ h_stack' = Pop(h_stack)
    /\ UNCHANGED <<mpc, exit_stat>>
    /\ SignalFrame

\* loop() gets past the joins, with no handler running
ExitLoopIdle ==
    /\ h_stack = <<>>
    /\ ExitLoop

\* loop() has loaded an empty history and started the two threads
InitSignal ==
    /\ known_chips = <<>>
    /\ queued_chips = {}
    /\ new_chips = <<>>
    /\ current_chip = NoChip
    /\ exit_stat = FALSE
    /\ history_exists = TRUE
    /\ history_file = {}
    /\ mpc = "join"
    /\ ppc = "while"
    /\ cpc = "get"
    /\ valid_chips = {}
    /\ px = NoChip
    /\ dest = {}
    /\ SeqIdle
    /\ RestIdle

NextSignal ==
    \/ HandlerEnter
    \/ HandlerCheck
    \/ HandlerSetFlag
    \/ HandlerPut
    \/ ExitLoopIdle
    \/ ProducerWhile
    \/ ProducerSleep
    \/ ConsumerGet

SpecSignal == InitSignal /\ [][NextSignal]_vars

\* this step is the first statement of an invocation of signal_handle
\* that finds the flag set
C19_ChecksWithFlagSet ==
    /\ exit_stat
    /\ h_stack # <<>>
    /\ Top(h_stack) = "check"
    /\ h_stack' # h_stack
    /\ Len(h_stack') <= Len(h_stack)

\* C19: a signal handled when exit_stat is already set ends the process at
\* once and puts no sentinel on the queue, and the queue never holds more
\* than one sentinel.
C19_SecondSignal ==
    [][/\ C19_ChecksWithFlagSet => (mpc' = "exited" /\ new_chips' = new_chips)
       /\ InQueue(new_chips', NoChip) <= 1]_vars

----
(***************************************************************************)
(* SpecRun: the producer and the consumer of Spec, without signals, with   *)
(* the consumer's transfers of the paths of iter_data_files made one by    *)
(* one.  x_chip is the run directory a transfer reads from, count and      *)
(* q_last are pull()'s counter and its last pull_path call.  Every run has *)
(* MaxRunPaths sequencer paths and no transfer fails.                      *)
(***************************************************************************)
\* number of paths iter_data_files yields for a run
MaxRunPaths == 2

\* self.chip_dir: self.dest / self.current_chip
ChipDirOfAnother(chip) == (chip % MaxChips) + 1
ChipDir(chip) == chip

\* a pull_path call on a path of the current run directory
RunTransfer(phase, path) ==
    /\ x_chip' = ChipDir(current_chip)
    /\ q_last' = [phase |-> phase, path |-> path, forced |-> "None",
                  result |-> "uploaded"]

RunFrame ==
    /\ UNCHANGED <<known_chips, queued_chips, new_chips, current_chip, exit_stat,
                   history_exists, history_file, mpc, ppc, valid_chips, px, dest>>
    /\ UNCHANGED <<force, failed_files, pull_error, q_stage, q_i, q_nseq, q_disk,
                   q_seen, q_nfail, q_failed_log, q_forced_log>>
    /\ UNCHANGED <<seqVars, oracleVars, fileVars, sigVars, waitVars>>

\* self.pull_path(self.chip_dir); return
RunAll ==
    /\ Alive
    /\ cpc = "pull_all"
    /\ RunTransfer("all", File("chip_dir"))
    /\ cpc' = "get"
    /\ UNCHANGED <<count, q_pc>>
    /\ RunFrame

\* lines 193-199: recipe and config are transferred; count = 0
RunStart ==
    /\ Alive
    /\ cpc = "incremental"
    /\ q_pc # "for"
    /\ RunTransfer("config", ConfigDir)
    /\ count' = 0
    /\ q_pc' = "for"
    /\ UNCHANGED cpc
    /\ RunFrame

\* for path in self.seq.iter_data_files(): self.pull_path(path); count += 1
RunData ==
    /\ Alive
    /\ cpc = "incremental"
    /\ q_pc = "for"
    /\ count < MaxRunPaths
    /\ RunTransfer("data", DataPath(count + 1))
    /\ count' = count + 1
    /\ UNCHANGED <<cpc, q_pc>>
    /\ RunFrame

\* lines 206-219: the rest of the pass, the completion marker last
RunRest ==
    /\ Alive
    /\ cpc = "incremental"
    /\ q_pc = "for"
    /\ count = MaxRunPaths
    /\ RunTransfer("marker", RunCompletionStatusXml)
    /\ q_pc' = "end"
    /\ cpc' = "mark"
    /\ UNCHANGED count
    /\ RunFrame

\* the process starts without a history file
InitRun ==
    /\ Init
    /\ ~history_exists

NextRun ==
    \/ \E x \in Names : NewName(x)
    \/ LoadHistory
    \/ ProducerWhile
    \/ FindNewChipCheckKnown
    \/ FindNewChipCheckQueued
    \/ FindNewChipPut
    \/ FindNewChipAdd
    \/ ProducerSleep
    \/ ConsumerGet
    \/ PullStart
    \/ RunAll
    \/ RunStart
    \/ RunData
    \/ RunRest
    \/ PullMark
    \/ PullRemove
    \/ PullDump

SpecRun == InitRun /\ [][NextRun]_vars

\* the consumer is between the dequeue of a run and the return of pull()
C18_Busy(c) == c \in {"pull", "pull_all", "incremental", "mark", "remove", "dump"}

\* this step is a transfer
C18_Transfers == <<x_chip, q_last>>' # <<x_chip, q_last>> \/ count' = count + 1

\* C18: from the dequeue of a run to the return of its pull(), the run the
\* consumer works on is the one it dequeued, every transfer reads from that
\* run's directory, and the k-th path of the sequencer transferred is the
\* k-th path yielded, whatever the producer enqueues meanwhile.
C18_RunsNotInterleaved ==
    [][/\ (cpc = "get" /\ cpc' = "pull") => current_chip' = PQFirst(new_chips)[2]
       /\ (C18_Busy(cpc) /\ C18_Busy(cpc')) => current_chip' = current_chip
       /\ C18_Transfers =>
            /\ C18_Busy(cpc)
            /\ current_chip' = current_chip
            /\ x_chip' = current_chip
       /\ (count' = count + 1) =>
            /\ q_last'.phase = "data"
            /\ q_last'.path = DataPath(count')
            /\ q_last.path = IF count = 0 THEN ConfigDir ELSE DataPath(count)]_vars

\* C18 witness: the consumer is in the middle of the sequencer paths of one
\* run while the producer has just put another run on the queue.
C18_Witness ==
    /\ cpc = "incremental"
    /\ count = 1
    /\ x_chip = current_chip
    /\ q_last.path = DataPath(1)
    /\ ppc = "add"
    /\ px # current_chip
    /\ InQueue(new_chips, px) = 1

----
(***************************************************************************)
(* SpecLive: SpecRun with fair scheduling.  Each thread that can take a    *)
(* step eventually takes one; no signal arrives.                           *)
(***************************************************************************)
ProducerStep ==
    \/ ProducerWhile
    \/ FindNewChipCheckKnown
    \/ FindNewChipCheckQueued
    \/ FindNewChipPut
    \/ FindNewChipAdd
    \/ ProducerSleep

ConsumerStep ==
    \/ ConsumerGet
    \/ PullStart
    \/ RunAll
    \/ RunStart
    \/ RunData
    \/ RunRest
    \/ PullMark
    \/ PullRemove
    \/ PullDump

SpecLive ==
    /\ InitRun
    /\ [][NextRun]_vars
    /\ WF_vars(LoadHistory)
    /\ WF_vars(ProducerStep)
    /\ WF_vars(ConsumerStep)

\* C17: a run directory that appears under dest while the service runs, and
\* is not in History, is eventually recorded in History as complete.
C17_EventuallyRecorded ==
    \A x \in Chips :
        (mpc = "join" /\ x \in dest /\ x \notin DOMAIN known_chips)
            ~> Done(known_chips, x)

----
(***************************************************************************)
(* The InterOp transfers of the incremental pass (checked under SpecPull). *)
(***************************************************************************)
\* the pull_path call made last was on InterOp, inside the data loop
C22_InteropInLoop(last) == last.phase = "data" /\ last.path = InteropDir

\* count paths of the sequencer have been transferred and count is a
\* positive multiple of 16
C22_Sixteenth == count > 0 /\ count % 16 = 0

\* C22: inside the loop over the sequencer's paths InterOp is transferred
\* after the 16th, 32nd, ... path and nowhere else: an InterOp transfer
\* follows the transfer of such a path at once, and the loop goes on to the
\* next path, or ends, only with InterOp transferred after such a path.
\* InterOp is transferred once more right after the last non-critical
\* directory.
C22_InteropEverySixteen ==
    [][/\ (q_last' # q_last /\ C22_InteropInLoop(q_last')) =>
            /\ C22_Sixteenth
            /\ count' = count
            /\ q_last.phase = "data"
            /\ q_last.path = DataPath(count)
       /\ (q_last' # q_last /\ ~C22_InteropInLoop(q_last') /\ q_last.phase = "data") =>
            (C22_Sixteenth <=> C22_InteropInLoop(q_last))
       /\ (q_last' # q_last /\ q_last'.phase = "interop") =>
            /\ q_last'.path = InteropDir
            /\ q_last.phase = "non_important"
            /\ q_last.path = NonImportantPaths[Len(NonImportantPaths)]
       /\ (q_last' # q_last /\ q_last.phase = "non_important"
             /\ q_last.path = NonImportantPaths[Len(NonImportantPaths)]) =>
            q_last'.phase = "interop"]_vars

\* C22 witness: the loop is about to go on after the InterOp transfer that
\* followed the 32nd path.
C22_Witness ==
    /\ cpc = "incremental"
    /\ PullOrder[q_stage] = "data"
    /\ count = 2 * 16
    /\ C22_InteropInLoop(q_last)
    /\ q_last.result # "raised"

----
(***************************************************************************)
(* SpecWait: one call of Sequence.wait_cycle(cycle), exists() call by      *)
(* exists() call and sleep by sleep, while the instrument writes the data  *)
(* files of the cycle and of the next one.  gpc is the position inside     *)
(* wait_cycle, this_cycle its argument, disk the files that exist.         *)
(***************************************************************************)
\* largest number of sleeps of the while loop
MaxSleeps == 2

ThisCycleFileOfLaneTwo(cycle) == Bcl(cycle, 2)

\* this_cycle_file = self.cycle_bcl_files(cycle=cycle, lane=1)
ThisCycleFile(cycle) == Bcl(cycle, 1)

\* next_cycle_file = self.cycle_bcl_files(cycle=cycle + 1, lane=1)
NextCycleFile(cycle) == Bcl(cycle + 1, 1)

\* the data files the instrument writes for the cycle and the next one
WaitFiles == {Bcl(c, l) : c \in {this_cycle, this_cycle + 1}, l \in 1..MaxLane}

WaitFrame ==
    /\ UNCHANGED <<lane_count, num_cycles, num_reads, this_cycle, lane, nyield,
                   last_yield, last_on_disk, globbed, pending>>
    /\ UNCHANGED <<engineVars, oracleVars, pullVars, fileVars, sigVars, runVars>>

\* the instrument writes file f
InstrumentWrites(f) ==
    /\ f \in WaitFiles \ disk
    /\ disk' = disk \cup {f}
    /\ UNCHANGED <<gpc, w_sleeps, w_seen>>
    /\ WaitFrame

\* while not this_cycle_file.exists():
WaitCycleWhile ==
    /\ gpc = "wc_while"
    /\ gpc' = IF ~FileExists(ThisCycleFile(this_cycle), disk)
              THEN "wc_sleep" ELSE "wc_if"
    /\ UNCHANGED <<disk, w_sleeps, w_seen>>
    /\ WaitFrame

\* time.sleep(interval), in the while loop
WaitCycleSleep ==
    /\ gpc = "wc_sleep"
    /\ w_sleeps < MaxSleeps
    /\ w_sleeps' = w_sleeps + 1
    /\ gpc' = "wc_while"
    /\ UNCHANGED <<disk, w_seen>>
    /\ WaitFrame

\* if not next_cycle_file.exists():
WaitCycleIf ==
    /\ gpc = "wc_if"
    /\ w_seen' = [sleeps |-> w_sleeps,
                  next |-> FileExists(NextCycleFile(this_cycle), disk),
                  ended |-> TRUE]
    /\ gpc' = IF ~FileExists(NextCycleFile(this_cycle), disk)
              THEN "wc_settle" ELSE "wc_return"
    /\ UNCHANGED <<disk, w_sleeps>>
    /\ WaitFrame

\* time.sleep(interval)  # wait all cycle files to generated
WaitCycleSettle ==
    /\ gpc = "wc_settle"
    /\ w_sleeps' = w_sleeps + 1
    /\ gpc' = "wc_return"
    /\ UNCHANGED <<disk, w_seen>>
    /\ WaitFrame

\* wait_cycle(cycle) is called with any of the data files already written
InitWait ==
    /\ EngineIdle
    /\ RestIdle
    /\ lane_count = 1
    /\ num_cycles = 1
    /\ num_reads = 0
    /\ this_cycle \in 1..MaxDiskCycle
    /\ disk \in SUBSET {Bcl(c, l) : c \in {this_cycle, this_cycle + 1},
                                    l \in 1..MaxLane}
    /\ gpc = "wc_while"
    /\ lane = 0
    /\ nyield = 0
    /\ last_yield = [kind |-> "none", cycle |-> 0, lane |-> 0]
    /\ last_on_disk = FALSE
    /\ globbed = {}
    /\ pending = {}

NextWait ==
    \/ WaitCycleWhile
    \/ WaitCycleSleep
    \/ WaitCycleIf
    \/ WaitCycleSettle
    \/ \E f \in WaitFiles : InstrumentWrites(f)

SpecWait == InitWait /\ [][NextWait]_vars

\* C21: wait_cycle(cycle) has not returned while lane 1's data file of the
\* cycle is missing; the moment the while loop has ended it looks for lane
\* 1's data file of cycle + 1, and by its return it has slept exactly once
\* more if that file was missing at that moment and not at all if it was
\* there.
C21_WaitCycle ==
    [][/\ w_seen' # w_seen =>
            /\ FileExists(Bcl(this_cycle, 1), disk)
            /\ w_seen'.sleeps = w_sleeps
            /\ w_seen'.next = FileExists(Bcl(this_cycle + 1, 1), disk)
       /\ gpc' = "wc_return" =>
            /\ FileExists(Bcl(this_cycle, 1), disk')
            /\ w_seen'.ended
            /\ w_sleeps' = w_seen'.sleeps + (IF w_seen'.next THEN 0 ELSE 1)
       /\ (gpc = "wc_return" /\ gpc' = gpc) => w_sleeps' = w_sleeps]_vars

\* C21 witness: the call has returned after sleeping in the loop and once
\* more, the next cycle's file having been missing when the loop ended.
C21_Witness ==
    /\ gpc = "wc_return"
    /\ w_seen.sleeps >= 1
    /\ ~w_seen.next
    /\ w_sleeps = w_seen.sleeps + 1

----
(***************************************************************************)
(* Runs recorded in History with flag 0 (checked under Spec, whose first   *)
(* state holds any history file an earlier process may have left, or       *)
(* none).                                                                  *)
(***************************************************************************)
\* run x is in History with flag 0
C24_FlagZero(known, x) == x \in DOMAIN known /\ known[x] = 0

\* run x is neither waiting in the queue, nor in queued_chips, nor being
\* transferred, nor about to be put on the queue by find_new_chip
C24_Untouched(queue, queued, chip, p, x) ==
    /\ InQueue(queue, x) = 0
    /\ x \notin queued
    /\ chip # x
    /\ p # x

\* C24: a run id that known_chips holds with flag 0 is never put on the
\* queue, so never transferred, and it keeps flag 0 in known_chips and in
\* the history file, which a restarted process loads.
C24_FlagZeroNeverEnqueued ==
    [][\A x \in Names :
          C24_FlagZero(known_chips, x) =>
            /\ C24_Untouched(new_chips, queued_chips, current_chip, px, x)
            /\ C24_Untouched(new_chips', queued_chips', current_chip', px', x)
            /\ C24_FlagZero(known_chips', x)
            /\ <<x, 0>> \in history_file
            /\ <<x, 0>> \in history_file']_vars

\* C24 witness: a run directory with flag 0 in History is on the disk, the
\* producer has come to the end of a scan of dest with nothing left in the
\* queue, and the consumer is transferring another run that a scan found.
C24_Witness ==
    \E x \in Chips, y \in Chips :
        /\ x # y
        /\ x \in dest
        /\ C24_FlagZero(known_chips, x)
        /\ <<x, 0>> \in history_file
        /\ InProgress(y)
        /\ cpc = "incremental"
        /\ ppc = "for"
        /\ valid_chips = {}
        /\ new_chips = <<>>
        /\ queued_chips = {y}
----
(***************************************************************************)
(* SpecDownload: the download tool, pull.py.  main() loads the history,    *)
(* then lists the bucket again and again and downloads each new run until  *)
(* is_sequencing_finisehd holds of its local copy.  known_chips,           *)
(* history_file, new_chips and current_chip (the loop variable chip) are   *)
(* the tool's own; o_disk, o_reads and o_age describe the local copy of    *)
(* the run being downloaded, o_out the last call of the predicate, x_chip  *)
(* the run the last download copied, mpc the position in main().           *)
(***************************************************************************)
\* is_valid(chip)
IsValid(chip) == chip \in Chips

\* the lists a set of names may be listed as
ListingsOf(S) ==
    {l \in UNION {[1..n -> S] : n \in {Cardinality(S)}} :
        \A i, j \in 1..Len(l) : i # j => l[i] # l[j]}

\* [x for x in chips if x not in known_chips and is_valid(x)]
NewChipsOf(chips, known) == SelectSeq(chips, LAMBDA x : x \notin DOMAIN known /\ IsValid(x))

\* the local copies of a run: RunInfo.xml, the data files up to some cycle
\* on the four lanes, and the marker or not
LocalDirs ==
    {DataFiles(k) \cup {RunInfo} \cup top :
        k \in 0..MaxDiskCycle, top \in SUBSET {RunCompletionStatusXml}}

\* the local copies download_data leaves of a run of the given descriptor:
\* RunInfo.xml and the data files of every declared cycle on the four lanes
DownloadedData(reads) ==
    {d \in LocalDirs \cup {DataFiles(FindReadLength(reads)) \cup {RunInfo}} :
        DataFiles(FindReadLength(reads)) \subseteq d}

\* ossutil cp -r -u: the local copies after the run is downloaded again
Downloaded(files) ==
    {d \in LocalDirs \cup {files, files \cup {RunCompletionStatusXml}} :
        files \subseteq d}

\* time.time() - st_ctime of the local marker after a download or a sleep:
\* 0 without a marker, any age when the marker has just been copied, and no
\* less than before otherwise
AgesAfter(before, after, age) ==
    IF RunCompletionStatusXml \notin after THEN {0}
    ELSE IF RunCompletionStatusXml \notin before THEN Ages
    ELSE {a \in Ages : a >= age}

DownloadFrame ==
    /\ UNCHANGED <<queued_chips, exit_stat, ppc, cpc, valid_chips, px, dest>>
    /\ UNCHANGED <<seqVars, pullVars, fileVars, sigVars, waitVars>>

\* load_history(args)
DownloadLoadHistory ==
    /\ mpc = "load"
    /\ IF ~history_exists
       THEN /\ \E all_chips \in SUBSET Names :
                 known_chips' = [x \in all_chips |-> 0]
            /\ history_file' = Dump(known_chips')
            /\ history_exists' = TRUE
       ELSE /\ known_chips' = Load(history_file)
            /\ UNCHANGED <<history_file, history_exists>>
    /\ mpc' = "find"
    /\ UNCHANGED <<new_chips, current_chip, oracleVars, runVars>>
    /\ DownloadFrame

\* new_chips = find_new_chip(args)
FindNewChip ==
    /\ mpc = "find"
    /\ \E S \in SUBSET Names : \E chips \in ListingsOf(S) :
         new_chips' = NewChipsOf(chips, known_chips)
    /\ mpc' = "for"
    /\ UNCHANGED <<known_chips, history_file, history_exists, current_chip,
                   oracleVars, runVars>>
    /\ DownloadFrame

\* for chip in new_chips: ... ; after the last one time.sleep(args.interval)
ForChip ==
    /\ mpc = "for"
    /\ IF new_chips # <<>>
       THEN /\ current_chip' = Head(new_chips)
            /\ new_chips' = Tail(new_chips)
            /\ mpc' = "download_data"
       ELSE /\ mpc' = "find"
            /\ UNCHANGED <<current_chip, new_chips>>
    /\ UNCHANGED <<known_chips, history_file, history_exists, oracleVars, runVars>>
    /\ DownloadFrame

\* download_data(name, dest_dir, bucket)
DownloadData ==
    /\ mpc = "download_data"
    /\ o_reads' \in ReadLists
    /\ o_disk' \in DownloadedData(o_reads')
    /\ o_age' \in AgesAfter({}, o_disk', 0)
    /\ x_chip' = current_chip
    /\ mpc' = "while"
    /\ UNCHANGED <<known_chips, history_file, history_exists, new_chips,
                   current_chip, o_out>>
    /\ DownloadFrame

\* while not is_sequencing_finisehd(dest_dir / name):
WhileNotFinished ==
    /\ mpc = "while"
    /\ LET finished == IsSequencingFinisehd(o_disk, o_reads, o_age)
       IN  /\ o_out' = [fn |-> "is_sequencing_finisehd", val |-> finished,
                        arg |-> current_chip]
           /\ mpc' = IF ~finished THEN "download" ELSE "mark"
    /\ UNCHANGED <<known_chips, history_file, history_exists, new_chips,
                   current_chip, o_disk, o_reads, o_age, runVars>>
    /\ DownloadFrame

\* download(name, dest_dir, bucket)
Download ==
    /\ mpc = "download"
    /\ o_disk' \in Downloaded(o_disk)
    /\ o_age' \in AgesAfter(o_disk, o_disk', o_age)
    /\ x_chip' = current_chip
    /\ mpc' = "sleep"
    /\ UNCHANGED <<known_chips, history_file, history_exists, new_chips,
                   current_chip, o_reads, o_out>>
    /\ DownloadFrame

\* time.sleep(30)
DownloadSleep ==
    /\ mpc = "sleep"
    /\ o_age' \in AgesAfter(o_disk, o_disk, o_age)
    /\ mpc' = "while"
    /\ UNCHANGED <<known_chips, history_file, history_exists, new_chips,
                   current_chip, o_disk, o_reads, o_out, runVars>>
    /\ DownloadFrame

\* known_chips[name] = 1
DownloadMark ==
    /\ mpc = "mark"
    /\ known_chips' = MarkDone(known_chips, current_chip)
    /\ mpc' = "dump"
    /\ UNCHANGED <<history_file, history_exists, new_chips, current_chip,
                   oracleVars, runVars>>
    /\ DownloadFrame

\* with open(history_file, 'w') as f: json.dump(known_chips, f, indent=2)
DownloadDump ==
    /\ mpc = "dump"
    /\ history_file' = Dump(known_chips)
    /\ mpc' = "for"
    /\ UNCHANGED <<known_chips, history_exists, new_chips, current_chip,
                   oracleVars, runVars>>
    /\ DownloadFrame

\* the tool starts with no history file or with that of an earlier process
InitDownload ==
    /\ Init
    /\ o_out = [fn |-> "none", val |-> FALSE]

NextDownload ==
    \/ DownloadLoadHistory
    \/ FindNewChip
    \/ ForChip
    \/ DownloadData
    \/ WhileNotFinished
    \/ Download
    \/ DownloadSleep
    \/ DownloadMark
    \/ DownloadDump

SpecDownload == InitDownload /\ [][NextDownload]_vars

(***************************************************************************)
(* Properties of the download tool (checked under SpecDownload).           *)
(***************************************************************************)
\* the last call of is_sequencing_finisehd was on run x and returned val
C23_Observed(x, val) ==
    /\ o_out.fn = "is_sequencing_finisehd"
    /\ o_out.arg = x
    /\ o_out.val = val

\* the local copy has the marker, 4 x cycle count data files, and the
\* marker is at least 300 seconds old
C23_Settled ==
    /\ File("run_completion_status") \in o_disk
    /\ Cardinality({f \in o_disk : f.kind = "bcl"}) = 4 * C20_Sum(o_reads)
    /\ o_age >= 300

\* C23: while the last call of is_sequencing_finisehd on the run returned
\* false, download_till_finish is in its loop (about to download the run
\* again, asleep after that, or about to call the predicate again) and goes
\* from the call to a download of that run; a run gets flag 1, and the
\* history file is rewritten, only with the predicate last observed true of
\* that run and its three conditions holding of the local copy; main() goes
\* on to another run only when the one before is recorded with flag 1 in
\* known_chips and in the history file, and every download copies the run
\* in hand.
C23_DownloadTillFinish ==
    [][/\ (mpc # "load" /\ C23_Observed(current_chip, FALSE)) =>
            /\ mpc \in {"download", "sleep", "while"}
            /\ mpc = "download" => (x_chip' = current_chip /\ mpc' = "sleep")
            /\ known_chips' = known_chips
            /\ history_file' = history_file
            /\ current_chip' = current_chip
       /\ (mpc # "load" /\ known_chips' # known_chips) =>
            /\ C23_Observed(current_chip, TRUE)
            /\ C23_Settled
            /\ known_chips' = MarkDone(known_chips, current_chip)
       /\ (mpc # "load" /\ history_file' # history_file) =>
            /\ C23_Observed(current_chip, TRUE)
            /\ C23_Settled
            /\ Done(known_chips, current_chip)
            /\ <<current_chip, 1>> \in history_file'
       /\ (current_chip' # current_chip /\ current_chip # NoChip) =>
            /\ Done(known_chips, current_chip)
            /\ <<current_chip, 1>> \in history_file
       /\ (o_disk' # o_disk \/ x_chip' # x_chip) => x_chip' = current_chip]_vars

\* C23 witness: with another run already recorded, a run has been downloaded
\* until the predicate held, recorded, and the history file rewritten.
C23_Witness ==
    \E x \in Chips :
        /\ x # current_chip
        /\ current_chip \in Chips
        /\ x_chip = current_chip
        /\ mpc = "for"
        /\ new_chips = <<>>
        /\ Done(known_chips, x)
        /\ Done(known_chips, current_chip)
        /\ history_file = Dump(known_chips)
        /\ C23_Observed(current_chip, TRUE)
        /\ C23_Settled

====
